---- MODULE Spec2Model ----
(***************************************************************************)
(* Authentication core of hello-rust-api.                                  *)
(*                                                                         *)
(*  - resource server (rs/): access_middleware = AuthService.verify_verified*)
(*    -> dpop::core::verify_proof -> ReplayStore.check_and_store -> handler *)
(*  - root crate (src/): an access_middleware that stops after verify_proof *)
(*  - authorization server (auth/): TokenService.issue_token_pair/refresh   *)
(*    over AuthSessionRepo and RefreshTokenRepo                             *)
(*                                                                         *)
(* Option<T> of the source is a sequence of length 0 (None) or 1 (Some).   *)
(* Time is in whole seconds (chrono timestamp, Redis EX seconds).          *)
(***************************************************************************)
EXTENDS Integers, Sequences, FiniteSets, TLC

VARIABLES
    now,        \* wall clock, unix seconds
    policy,     \* AuthService.dpop_policy (DpopPolicy), fixed at startup
    base_url,   \* AuthService.public_base_url (Option)
    store,      \* Valkey keyspace: live key -> second at which it expires
    req,        \* protected requests: request id -> task state
    sessions,   \* table auth_sessions: id -> row
    refresh_tokens, \* table refresh_tokens: id -> row
    call,       \* token-endpoint calls: call id -> task state
    obs,        \* the last direct call (AuthSessionRepo, verify_verified) and its result
    refresh_ttl \* RefreshTokenService.ttl_seconds, fixed at startup

vars == <<now, policy, base_url, store, req, sessions, refresh_tokens, call, obs, refresh_ttl>>
rsVars == <<policy, base_url, store, req>>
asVars == <<sessions, refresh_tokens, call, obs, refresh_ttl>>

----------------------------------------------------------------------------
(* Bounds of the model *)

MaxTime == 2
MaxReqs == 2
MaxCalls == 2
MaxSessions == 2

ReqIds == 1..MaxReqs
CallIds == 1..MaxCalls

None == <<>>
Some(x) == <<x>>
IsSome(o) == Len(o) = 1
Unwrap(o) == o[1]

----------------------------------------------------------------------------
(* Strings of the wire formats, as small finite sets *)

Users == {"u1", "u2"}            \* UUID strings
ClientKeys == {"k1", "k2"}       \* Ed25519 public keys (JWK member x)
Issuer == "as"                   \* AUTH_ISSUER
Audience == "rs"                 \* AUTH_AUDIENCE

\* str::to_ascii_lowercase / eq_ignore_ascii_case on the strings used here
Lower(s) ==
    CASE s = "GET" -> "get"
      [] s = "POST" -> "post"
      [] s = "Get" -> "get"
      [] s = "HTTP" -> "http"
      [] s = "HTTPS" -> "https"
      [] s = "Api" -> "api"
      [] s = "Host" -> "host"
      [] s = "DPoP+JWT" -> "dpop+jwt"
      [] s = "U1" -> "u1"
      [] OTHER -> s

\* a comparison that takes any two strings for equal
eq_any(a, b) == TRUE

eq_ignore_ascii_case(a, b) == Lower(a) = Lower(b)

\* Uuid::parse_str succeeds exactly on the UUID strings, in lower or upper case hex
\* digits; the Uuid displays in lower case
parse_sub_uuid(sub) == IF Lower(sub) \in Users THEN Some(Lower(sub)) ELSE None

\* SHA-256 followed by base64url-no-pad: injective on the inputs of the model
Sha256B64(tag, x) == <<tag, x>>

compute_ath(access_token) == Sha256B64("S256", access_token)

\* RFC 7638 thumbprint of an OKP/Ed25519 key; Err(UnsupportedJwk) otherwise
compute_jwk_thumbprint(jwk) ==
    IF jwk.kty = "OKP" /\ jwk.crv = "Ed25519"
    THEN [ok |-> TRUE, jkt |-> Sha256B64("S256", <<"crv", "Ed25519", "kty", "OKP", "x", jwk.x>>)]
    ELSE [ok |-> FALSE, jkt |-> Sha256B64("S256", <<>>)]

Jkt(k) == compute_jwk_thumbprint([kty |-> "OKP", crv |-> "Ed25519", x |-> k]).jkt

----------------------------------------------------------------------------
(* Resource server: access-token verification (rs/src/services/auth/access_jwt.rs) *)

AccessLeeway == 1   \* ACCESS_TOKEN_LEEWAY_SECONDS, scaled to the model's clock

\* An access token as presented: the compact JWS, by its content.
\*   sig: signed with the authorization server's Ed25519 key
\*   aud: the aud claim as a list (a single string is a list of one, absent is <<>>)
Token(sig, iss, aud, sub, exp, nbf, jti, jkt) ==
    [sig |-> sig, iss |-> iss, aud |-> aud, sub |-> sub, exp |-> exp,
     nbf |-> nbf, jti |-> jti, cnf_jkt |-> jkt]

Elems(seq) == {seq[i] : i \in 1..Len(seq)}

aud_is_present_and_valid(aud) == \E a \in Elems(aud) : a # ""

\* a decoder that does not check the signature
verify_unsigned(token, t) ==
    /\ ~(token.exp < t - AccessLeeway)
    /\ token.iss = Issuer
    /\ (token.aud # <<>> => Audience \in Elems(token.aud))

\* jsonwebtoken::decode under Validation{EdDSA, iss, aud, leeway}: signature,
\* exp (exp < now - leeway is expired), iss, aud. validate_nbf keeps its default, false.
verify(token, t) ==
    /\ token.sig
    /\ ~(token.exp < t - AccessLeeway)
    /\ token.iss = Issuer
    /\ (token.aud # <<>> => Audience \in Elems(token.aud))

verify_strict(token, t) ==
    IF ~verify(token, t) THEN "Jwt"
    ELSE IF token.iss = "" THEN "EmptyClaim(iss)"
    ELSE IF token.sub = "" THEN "EmptyClaim(sub)"
    ELSE IF token.exp = 0 THEN "EmptyClaim(exp)"
    ELSE IF ~aud_is_present_and_valid(token.aud) THEN "MissingOrInvalidAud"
    ELSE IF ~IsSome(parse_sub_uuid(token.sub)) THEN "InvalidSubUuid"
    ELSE "Ok"

\* Result<VerifiedAccessToken, AccessJwtError>
verify_verified(token, t) ==
    LET e == verify_strict(token, t) IN
    IF e # "Ok"
    THEN [ok |-> FALSE, err |-> e, user_id |-> "", jti |-> None, cnf_jkt |-> None]
    ELSE [ok |-> TRUE, err |-> "Ok", user_id |-> Unwrap(parse_sub_uuid(token.sub)),
          jti |-> token.jti, cnf_jkt |-> token.cnf_jkt]

----------------------------------------------------------------------------
(* Resource server: DPoP proof verification (rs/src/services/auth/dpop/core.rs) *)

DpopPolicy(required, leeway, max_age, require_ath, require_nonce, ttl) ==
    [required |-> required, iat_leeway_seconds |-> leeway, max_age_seconds |-> max_age,
     require_ath |-> require_ath, require_nonce |-> require_nonce,
     replay_ttl_seconds |-> ttl]

\* An absolute URI string, by its parts as written; port 0 is "no port".
\* parse is FALSE for a string url::Url::parse rejects.
Url(scheme, host, port, path, query) ==
    [parse |-> TRUE, scheme |-> scheme, host |-> host, port |-> port,
     path |-> path, query |-> query]

\* url::Url::parse on the path of an http(s) URL: an empty path reads as "/" and dot
\* segments are removed; url.path() returns the result (on the paths used here)
parse_path(path) ==
    CASE path = "" -> "/"
      [] path = "/x/../a" -> "/a"
      [] path = "/./r" -> "/r"
      [] OTHER -> path

normalize_htu(htu) ==
    IF htu.parse
    THEN LET scheme == Lower(htu.scheme) IN
         [parse |-> TRUE, scheme |-> scheme, host |-> Lower(htu.host),
          port |-> IF (scheme = "http" /\ htu.port = 80) \/ (scheme = "https" /\ htu.port = 443)
                   THEN 0 ELSE htu.port,
          path |-> parse_path(htu.path), query |-> htu.query]
    ELSE htu

\* url::Url::parse(base), set_path, set_query, to_string
build_htu_from_base(base, uri) ==
    [base EXCEPT !.path = parse_path(uri.path), !.query = uri.query]

\* format!("{}://{}{}", scheme, host, uri) from the proxy headers
build_htu_from_forwarded(headers, uri) ==
    LET scheme == IF IsSome(headers.xfp) THEN Unwrap(headers.xfp) ELSE "http"
        host == IF IsSome(headers.xfh) THEN Unwrap(headers.xfh)
                ELSE IF IsSome(headers.host) THEN Unwrap(headers.host)
                ELSE [name |-> "localhost", port |-> 0]
    IN Url(scheme, host.name, host.port, uri.path, uri.query)

build_expected_htu(headers, uri, public_base_url) ==
    IF IsSome(public_base_url) /\ Unwrap(public_base_url).parse
    THEN build_htu_from_base(Unwrap(public_base_url), uri)
    ELSE build_htu_from_forwarded(headers, uri)

\* A DPoP proof as presented in one DPoP header value.
\*   wf: the value is a decodable compact JWS; signer: the key that signed it
Proof(typ, alg, jwk, signer, htm, htu, iat, jti, ath, nonce) ==
    [wf |-> TRUE, typ |-> typ, alg |-> alg, jwk |-> jwk, signer |-> signer,
     htm |-> htm, htu |-> htu, iat |-> iat, jti |-> jti, ath |-> ath, nonce |-> nonce]

Jwk(kty, crv, x) == [kty |-> kty, crv |-> crv, x |-> x]

\* DecodingKey::from_jwk: an OKP key is built from x whatever its crv; x must be base64url
from_jwk_ok(jwk) == jwk.kty # "OKP" \/ jwk.x \in ClientKeys

\* jsonwebtoken::decode(proof, key, Validation{EdDSA, no exp}): the key must be an
\* Ed25519 key and the signature must verify under it
decode_ok(proof) ==
    /\ Unwrap(proof.jwk).kty = "OKP"
    /\ proof.signer = Unwrap(proof.jwk).x

VerifiedDpop(jti, iat, htm, htu, nonce) ==
    [jti |-> jti, iat |-> iat, htm |-> htm, htu |-> htu, nonce |-> nonce]

DpopErr(e) == [ok |-> FALSE, err |-> e, dpop |-> None]

\* a verifier that trusts the key the proof brings, whatever the token is bound to
check_jkt_skipped(jwk, expected_jkt) == "Ok"

\* verify_proof, "sender-constrained: cnf.jkt vs DPoP jwk thumbprint"
check_jkt(jwk, expected_jkt) ==
    IF ~IsSome(expected_jkt) THEN "Ok"
    ELSE IF ~compute_jwk_thumbprint(jwk).ok THEN "UnsupportedJwk"
    ELSE IF compute_jwk_thumbprint(jwk).jkt # Unwrap(expected_jkt) THEN "JktMismatch"
    ELSE "Ok"

\* a verifier that asks for an ath claim and never compares it
check_ath_presence_only(pol, ath, access_token) ==
    IF ~pol.require_ath THEN "Ok"
    ELSE IF ~IsSome(access_token) THEN "MissingClaim(ath)"
    ELSE IF ~IsSome(ath) THEN "MissingClaim(ath)"
    ELSE "Ok"

\* a verifier for which a proof without ath needs no comparison
check_ath_optional(pol, ath, access_token) ==
    IF ~pol.require_ath THEN "Ok"
    ELSE IF ~IsSome(access_token) THEN "Ok"
    ELSE IF ~IsSome(ath) THEN "Ok"
    ELSE IF Unwrap(ath) # compute_ath(Unwrap(access_token)) THEN "AthMismatch"
    ELSE "Ok"

\* verify_proof, "7) ath check (bind proof to access token)"
check_ath(pol, ath, access_token) ==
    IF ~pol.require_ath THEN "Ok"
    ELSE IF ~IsSome(access_token) THEN "MissingClaim(ath)"
    ELSE IF ~IsSome(ath) THEN "MissingClaim(ath)"
    ELSE IF Unwrap(ath) # compute_ath(Unwrap(access_token)) THEN "AthMismatch"
    ELSE "Ok"

\* an iat window that excludes its two end points
check_iat_exclusive(pol, iat, t) ==
    IF iat >= t + pol.iat_leeway_seconds THEN "InvalidIat"
    ELSE IF t - iat >= pol.max_age_seconds + pol.iat_leeway_seconds THEN "InvalidIat"
    ELSE "Ok"

\* verify_proof, "6) iat window check"
check_iat(pol, iat, t) ==
    IF iat > t + pol.iat_leeway_seconds THEN "InvalidIat"
    ELSE IF t - iat > pol.max_age_seconds + pol.iat_leeway_seconds THEN "InvalidIat"
    ELSE "Ok"

\* Result<Option<VerifiedDpop>, DpopError>; t is chrono::Utc::now().timestamp()
verify_proof(pol, headers, method, uri, access_token, expected_jkt, public_base_url, t) ==
    IF ~pol.required THEN [ok |-> TRUE, err |-> "Ok", dpop |-> None]
    ELSE IF headers.dpop = <<>> THEN DpopErr("MissingProof")
    ELSE LET proof == headers.dpop[1] IN
    IF ~proof.wf THEN DpopErr("InvalidJwt")
    ELSE IF ~IsSome(proof.typ) THEN DpopErr("InvalidTyp")
    ELSE IF ~eq_ignore_ascii_case(Unwrap(proof.typ), "dpop+jwt") THEN DpopErr("InvalidTyp")
    ELSE IF proof.alg # "EdDSA" THEN DpopErr("UnsupportedAlg")
    ELSE IF ~IsSome(proof.jwk) THEN DpopErr("MissingJwk")
    ELSE IF ~from_jwk_ok(Unwrap(proof.jwk)) THEN DpopErr("InvalidJwt")
    ELSE IF check_jkt(Unwrap(proof.jwk), expected_jkt) # "Ok"
         THEN DpopErr(check_jkt(Unwrap(proof.jwk), expected_jkt))
    ELSE IF ~decode_ok(proof) THEN DpopErr("InvalidJwt")
    ELSE IF ~IsSome(proof.htm) THEN DpopErr("MissingClaim(htm)")
    ELSE IF ~IsSome(proof.htu) THEN DpopErr("MissingClaim(htu)")
    ELSE IF ~IsSome(proof.iat) THEN DpopErr("MissingClaim(iat)")
    ELSE IF ~IsSome(proof.jti) THEN DpopErr("MissingClaim(jti)")
    ELSE IF ~eq_ignore_ascii_case(Unwrap(proof.htm), method) THEN DpopErr("MethodMismatch")
    ELSE IF normalize_htu(Unwrap(proof.htu))
            # normalize_htu(build_expected_htu(headers, uri, public_base_url))
         THEN DpopErr("UriMismatch")
    ELSE IF check_iat(pol, Unwrap(proof.iat), t) # "Ok"
         THEN DpopErr(check_iat(pol, Unwrap(proof.iat), t))
    ELSE IF check_ath(pol, proof.ath, access_token) # "Ok"
         THEN DpopErr(check_ath(pol, proof.ath, access_token))
    ELSE IF pol.require_nonce /\ ~IsSome(proof.nonce) THEN DpopErr("NonceRequired")
    ELSE [ok |-> TRUE, err |-> "Ok",
          dpop |-> Some(VerifiedDpop(Unwrap(proof.jti), Unwrap(proof.iat),
                                     Unwrap(proof.htm), Unwrap(proof.htu), proof.nonce))]

----------------------------------------------------------------------------
(* Replay store: ValkeyReplayStore over ValkeyClient (SET key "1" NX EX ttl) *)

Max(a, b) == IF a >= b THEN a ELSE b

ReplayPrefix == "dpop:replay"

\* ValkeyReplayStore::key: format!("{}:{}", prefix, raw)
FullKey(raw) == <<ReplayPrefix>> \o raw

\* a replay key that leaves the subject out
ReplayKey_without_subject(user_id, jti) == <<"dpop", "", jti>>

\* access_middleware: format!("dpop:{}:{}", claims.user_id, dpop.jti)
ReplayKey(user_id, jti) == <<"dpop", user_id, jti>>

Live(k) == k \in DOMAIN store

\* the keyspace after SET key "1" EX max(ttl, 1), without NX
set_with_ttl(key, ttl, t) ==
    [k \in DOMAIN store \cup {key} |-> IF k = key THEN t + Max(ttl, 1) ELSE store[k]]

\* the keyspace after SET key "1" NX EX ttl, the TTL not clamped
set_if_absent_unclamped(key, ttl, t) ==
    IF Live(key) THEN store
    ELSE [k \in DOMAIN store \cup {key} |-> IF k = key THEN t + ttl ELSE store[k]]

\* The keyspace after SET key "1" NX EX max(ttl, 1) at second t
set_if_absent_with_ttl(key, ttl, t) ==
    IF Live(key) THEN store
    ELSE [k \in DOMAIN store \cup {key} |->
            IF k = key THEN t + Max(ttl, 1) ELSE store[k]]

Drop(keys) == [k \in DOMAIN store \ keys |-> store[k]]

----------------------------------------------------------------------------
(* Protected requests *)

\* A request as received: Authorization header, DPoP and proxy headers, method, target
Request(auth, token, dpop, method, uri, xfp, xfh, host) ==
    [auth |-> auth, token |-> token, method |-> method, uri |-> uri,
     headers |-> [dpop |-> dpop, xfp |-> xfp, xfh |-> xfh, host |-> host]]

Idle ==
    [pc |-> "idle", mw |-> "", inp |-> None, user_id |-> "", key |-> None,
     first_time |-> "none", claimAt |-> 0, status |-> 0, err |-> "", reason |-> "",
     handler |-> FALSE, ctx |-> None]

\* an error value that carries the reason of the rejection to the response
Unauthorized_with_reason(q, reason) ==
    [q EXCEPT !.pc = "done", !.status = 401, !.err = reason, !.reason = reason]

\* return Err(AppError::Unauthorized), after tracing::warn!(reason): err is the error
\* value the response is built from, reason goes to the log only
Unauthorized(q, reason) ==
    [q EXCEPT !.pc = "done", !.status = 401, !.err = "Unauthorized", !.reason = reason]

\* req.extensions_mut().insert(AuthCtx::new(claims.user_id)); next.run(req).await
Admit(q) ==
    [q EXCEPT !.pc = "done", !.status = 200, !.handler = TRUE, !.ctx = Some(q.user_id)]

\* a middleware that claims the proof's jti as soon as the token is verified, before
\* the proof is
rs_claim_before_checks(inp, mw) ==
    LET q0 == [Idle EXCEPT !.mw = mw, !.inp = Some(inp)]
        claims == verify_verified(inp.token, now)
        v == verify_proof(policy, inp.headers, inp.method, inp.uri, Some(inp.token),
                          claims.cnf_jkt, base_url, now)
        q1 == [q0 EXCEPT !.user_id = claims.user_id]
    IN  IF inp.auth # "bearer" THEN Unauthorized(q0, "Authorization")
        ELSE IF ~claims.ok THEN Unauthorized(q0, claims.err)
        ELSE IF policy.required /\ inp.headers.dpop # <<>> /\ inp.headers.dpop[1].wf
                /\ IsSome(inp.headers.dpop[1].jti)
             THEN [q1 EXCEPT !.pc = "replay",
                             !.key = Some(ReplayKey(claims.user_id,
                                                    Unwrap(inp.headers.dpop[1].jti)))]
        ELSE IF ~v.ok THEN Unauthorized(q1, v.err)
        ELSE Admit(q1)

\* a middleware that asks for a proof whatever policy.required says
rs_until_await_proof_always(inp, mw) ==
    LET q0 == [Idle EXCEPT !.mw = mw, !.inp = Some(inp)]
        claims == verify_verified(inp.token, now)
        v == verify_proof([policy EXCEPT !.required = TRUE], inp.headers, inp.method,
                          inp.uri, Some(inp.token), claims.cnf_jkt, base_url, now)
        q1 == [q0 EXCEPT !.user_id = claims.user_id]
    IN  IF inp.auth # "bearer" THEN Unauthorized(q0, "Authorization")
        ELSE IF ~claims.ok THEN Unauthorized(q0, claims.err)
        ELSE IF ~v.ok THEN Unauthorized(q1, v.err)
        ELSE IF IsSome(v.dpop)
             THEN [q1 EXCEPT !.pc = "replay",
                             !.key = Some(ReplayKey(claims.user_id, Unwrap(v.dpop).jti))]
        ELSE Admit(q1)

\* a middleware that looks the token's subject up in auth_sessions and turns the
\* request down when the subject has no active session
rs_until_await_session_checked(inp, mw) ==
    LET q0 == [Idle EXCEPT !.mw = mw, !.inp = Some(inp)]
        claims == verify_verified(inp.token, now)
        v == verify_proof(policy, inp.headers, inp.method, inp.uri, Some(inp.token),
                          claims.cnf_jkt, base_url, now)
        q1 == [q0 EXCEPT !.user_id = claims.user_id]
        active == \E id \in DOMAIN sessions :
                    sessions[id].user_id = claims.user_id /\ sessions[id].revoked_at = <<>>
    IN  IF inp.auth # "bearer" THEN Unauthorized(q0, "Authorization")
        ELSE IF ~claims.ok THEN Unauthorized(q0, claims.err)
        ELSE IF ~active THEN Unauthorized(q1, "Session")
        ELSE IF ~v.ok THEN Unauthorized(q1, v.err)
        ELSE IF IsSome(v.dpop)
             THEN [q1 EXCEPT !.pc = "replay",
                             !.key = Some(ReplayKey(claims.user_id, Unwrap(v.dpop).jti))]
        ELSE Admit(q1)

\* rs access_middleware from the request's arrival to its first await (or its end)
rs_until_await(inp, mw) ==
    LET q0 == [Idle EXCEPT !.mw = mw, !.inp = Some(inp)]
        claims == verify_verified(inp.token, now)
        v == verify_proof(policy, inp.headers, inp.method, inp.uri, Some(inp.token),
                          claims.cnf_jkt, base_url, now)
        q1 == [q0 EXCEPT !.user_id = claims.user_id]
    IN  IF inp.auth # "bearer" THEN Unauthorized(q0, "Authorization")
        ELSE IF ~claims.ok THEN Unauthorized(q0, claims.err)
        ELSE IF ~v.ok THEN Unauthorized(q1, v.err)
        ELSE IF IsSome(v.dpop)
             THEN [q1 EXCEPT !.pc = "replay",
                             !.key = Some(ReplayKey(claims.user_id, Unwrap(v.dpop).jti))]
        ELSE Admit(q1)

\* root access_middleware: the result of verify_proof is dropped unless it is an error
root_whole(inp, mw) ==
    LET q0 == [Idle EXCEPT !.mw = mw, !.inp = Some(inp)]
        claims == verify_verified(inp.token, now)
        v == verify_proof(policy, inp.headers, inp.method, inp.uri, Some(inp.token),
                          claims.cnf_jkt, base_url, now)
        q1 == [q0 EXCEPT !.user_id = claims.user_id]
    IN  IF inp.auth # "bearer" THEN Unauthorized(q0, "Authorization")
        ELSE IF ~claims.ok THEN Unauthorized(q0, claims.err)
        ELSE IF ~v.ok THEN Unauthorized(q1, v.err)
        ELSE Admit(q1)

\* request slots are taken in order
NextSlot(r) == req[r].pc = "idle" /\ \A x \in ReqIds : x < r => req[x].pc # "idle"

access_middleware(r, inp) ==
    /\ NextSlot(r)
    /\ req' = [req EXCEPT ![r] = rs_until_await(inp, "rs")]
    /\ UNCHANGED <<now, policy, base_url, store, asVars>>

access_middleware_root(r, inp) ==
    /\ NextSlot(r)
    /\ req' = [req EXCEPT ![r] = root_whole(inp, "root")]
    /\ UNCHANGED <<now, policy, base_url, store, asVars>>

\* ValkeyReplayStore::check_and_store: the SET is executed by the cache and answered
check_and_store(r) ==
    /\ req[r].pc = "replay"
    /\ LET key == FullKey(Unwrap(req[r].key)) IN
       /\ store' = set_if_absent_with_ttl(key, policy.replay_ttl_seconds, now)
       /\ req' = [req EXCEPT ![r].pc = "claimed", ![r].claimAt = now,
                             ![r].first_time = IF Live(key) THEN "false" ELSE "true"]
    /\ UNCHANGED <<now, policy, base_url, asVars>>

\* CacheError::BackendCommand: the command fails, either before the cache ran it or
\* after (the reply is lost)
check_and_store_error(r) ==
    /\ req[r].pc = "replay"
    /\ LET key == FullKey(Unwrap(req[r].key)) IN
       \E ran \in BOOLEAN :
          store' = IF ran THEN set_if_absent_with_ttl(key, policy.replay_ttl_seconds, now)
                   ELSE store
    /\ req' = [req EXCEPT ![r].pc = "claimed", ![r].claimAt = now, ![r].first_time = "err"]
    /\ UNCHANGED <<now, policy, base_url, asVars>>

\* a middleware that drops the "if !first_time" test
rs_after_await_no_replay(q) ==
    IF q.first_time = "err" THEN Unauthorized(q, "ReplayBackend")
    ELSE Admit(q)

\* a middleware that fails open: .unwrap_or(true) on the store's answer
rs_after_await_fail_open(q) ==
    IF q.first_time = "false" THEN Unauthorized(q, "Replay")
    ELSE Admit(q)

\* rs access_middleware after the await of check_and_store
rs_after_await(q) ==
    IF q.first_time = "err" THEN Unauthorized(q, "ReplayBackend")
    ELSE IF q.first_time # "true" THEN Unauthorized(q, "Replay")
    ELSE Admit(q)

access_resume(r) ==
    /\ req[r].pc = "claimed"
    /\ req' = [req EXCEPT ![r] = rs_after_await(req[r])]
    /\ UNCHANGED <<now, policy, base_url, store, asVars>>

\* a cancellation that releases the claim: the key of the dropped request is deleted
cancel_releasing(r) ==
    /\ req[r].pc \in {"replay", "claimed"}
    /\ req' = [req EXCEPT ![r].pc = "cancelled"]
    /\ store' = IF req[r].first_time = "true" THEN Drop({FullKey(Unwrap(req[r].key))})
                ELSE store
    /\ UNCHANGED <<now, policy, base_url, asVars>>

\* The request's future is dropped at an await of access_middleware (client gone,
\* request timeout): waiting for check_and_store, or after its answer arrived and
\* before the task ran on. Nothing runs on drop.
cancel(r) ==
    /\ req[r].pc \in {"replay", "claimed"}
    /\ req' = [req EXCEPT ![r].pc = "cancelled"]
    /\ UNCHANGED <<now, policy, base_url, store, asVars>>

\* A key whose EX time has come is removed by the cache at some instant of that second
Expire(k) ==
    /\ Live(k)
    /\ store[k] <= now
    /\ store' = Drop({k})
    /\ UNCHANGED <<now, policy, base_url, req, asVars>>

Tick ==
    /\ now < MaxTime
    /\ now' = now + 1
    /\ store' = Drop({k \in DOMAIN store : store[k] < now + 1})
    /\ UNCHANGED <<policy, base_url, req, asVars>>

----------------------------------------------------------------------------
(* Authorization server: tables auth_sessions and refresh_tokens *)

AccessTtl == 2      \* ACCESS_TOKEN_TTL_SECONDS, scaled to the model's clock

SessionIds == DOMAIN sessions
Revoked(row) == IsSome(row.revoked_at)

\* INSERT INTO auth_sessions (user_id, dpop_jkt) ... RETURNING *; the id is the new index
\* (created_at is written once by the insert and read by nothing; it is left out)
AuthSessionRow(user_id, dpop_jkt) ==
    [user_id |-> user_id, dpop_jkt |-> dpop_jkt, last_used_at |-> None,
     revoked_at |-> None]

create(user_id, dpop_jkt) == Append(sessions, AuthSessionRow(user_id, dpop_jkt))

\* SELECT ... FROM auth_sessions WHERE id = $1 AND revoked_at IS NULL
get_active_by_id(id) ==
    IF id \in SessionIds /\ ~Revoked(sessions[id]) THEN Some(sessions[id]) ELSE None

\* SELECT user_id, dpop_jkt FROM auth_sessions WHERE id = $1
lookup_refresh_context_any(session_id) ==
    IF session_id \in SessionIds
    THEN Some([user_id |-> sessions[session_id].user_id,
               dpop_jkt |-> sessions[session_id].dpop_jkt])
    ELSE None

\* a lookup that answers with the oldest active session, whatever id is asked for
lookup_refresh_context_oldest(session_id) ==
    LET active == {s \in SessionIds : ~Revoked(sessions[s])} IN
    IF session_id \in SessionIds /\ ~Revoked(sessions[session_id])
    THEN LET s == CHOOSE x \in active : \A y \in active : x <= y IN
         Some([user_id |-> sessions[s].user_id, dpop_jkt |-> sessions[s].dpop_jkt])
    ELSE None

\* SELECT user_id, dpop_jkt FROM auth_sessions WHERE id = $1 AND revoked_at IS NULL
lookup_refresh_context(session_id) ==
    IF session_id \in SessionIds /\ ~Revoked(sessions[session_id])
    THEN Some([user_id |-> sessions[session_id].user_id,
               dpop_jkt |-> sessions[session_id].dpop_jkt])
    ELSE None

\* rows matched by "WHERE id = $1 AND revoked_at IS NULL"
ActiveRows(id) == IF id \in SessionIds /\ ~Revoked(sessions[id]) THEN {id} ELSE {}

\* UPDATE auth_sessions SET last_used_at = $2 WHERE id = $1 AND revoked_at IS NULL
touch_last_used(id, t) ==
    [s \in SessionIds |->
        IF s \in ActiveRows(id) THEN [sessions[s] EXCEPT !.last_used_at = Some(t)]
        ELSE sessions[s]]

\* UPDATE auth_sessions SET dpop_jkt = $2 WHERE id = $1 AND revoked_at IS NULL
set_dpop_jkt(id, dpop_jkt) ==
    [s \in SessionIds |->
        IF s \in ActiveRows(id) THEN [sessions[s] EXCEPT !.dpop_jkt = Some(dpop_jkt)]
        ELSE sessions[s]]

\* UPDATE auth_sessions SET revoked_at = $2 WHERE id = $1
revoke_unguarded(id, t) ==
    [s \in SessionIds |->
        IF s = id THEN [sessions[s] EXCEPT !.revoked_at = Some(t)] ELSE sessions[s]]

\* UPDATE auth_sessions SET revoked_at = $2 WHERE id = $1 AND revoked_at IS NULL
revoke(id, t) ==
    [s \in SessionIds |->
        IF s \in ActiveRows(id) THEN [sessions[s] EXCEPT !.revoked_at = Some(t)]
        ELSE sessions[s]]

\* sha256(token) as raw bytes
hash_refresh_token(token) == <<"sha256", token>>

\* INSERT INTO refresh_tokens (session_id, token_hash, expires_at); issued_at defaults
\* to the insert's now()
RefreshTokenRow(session_id, token_hash, expires_at, t) ==
    [session_id |-> session_id, token_hash |-> token_hash, issued_at |-> t,
     expires_at |-> expires_at, used_at |-> None, revoked_at |-> None,
     replaced_by |-> None]

insert(session_id, token_hash, expires_at, t) ==
    Append(refresh_tokens, RefreshTokenRow(session_id, token_hash, expires_at, t))

\* find_active_by_hash with "expires_at >= $2" in place of "expires_at > $2"
find_active_by_hash_inclusive(token_hash, t) ==
    LET hit == {i \in DOMAIN refresh_tokens :
                   /\ refresh_tokens[i].token_hash = token_hash
                   /\ refresh_tokens[i].revoked_at = None
                   /\ refresh_tokens[i].expires_at >= t}
    IN IF hit = {} THEN None ELSE Some(CHOOSE i \in hit : \A j \in hit : i <= j)

\* SELECT ... WHERE token_hash = $1 AND revoked_at IS NULL AND expires_at > $2 LIMIT 1
find_active_by_hash(token_hash, t) ==
    LET hit == {i \in DOMAIN refresh_tokens :
                   /\ refresh_tokens[i].token_hash = token_hash
                   /\ refresh_tokens[i].revoked_at = None
                   /\ refresh_tokens[i].expires_at > t}
    IN IF hit = {} THEN None ELSE Some(CHOOSE i \in hit : \A j \in hit : i <= j)

\* the UPDATE without "AND revoked_at IS NULL"
refresh_revoke_unguarded(id, replaced_by, t) ==
    [i \in DOMAIN refresh_tokens |->
        IF i = id
        THEN [refresh_tokens[i] EXCEPT !.revoked_at = Some(t), !.replaced_by = replaced_by]
        ELSE refresh_tokens[i]]

\* UPDATE refresh_tokens SET revoked_at = $2, replaced_by = $3
\* WHERE id = $1 AND revoked_at IS NULL
refresh_revoke(id, replaced_by, t) ==
    [i \in DOMAIN refresh_tokens |->
        IF i = id /\ refresh_tokens[i].revoked_at = None
        THEN [refresh_tokens[i] EXCEPT !.revoked_at = Some(t), !.replaced_by = replaced_by]
        ELSE refresh_tokens[i]]

----------------------------------------------------------------------------
(* Authorization server: POST /api/v1/token *)

\* TokenRequest { grant_type, sub, jkt, refresh_token }, every member optional
TokenRequest(grant_type, sub, jkt, refresh_token) ==
    [grant_type |-> grant_type, sub |-> sub, jkt |-> jkt, refresh_token |-> refresh_token]

IdleCall ==
    [pc |-> "idle", op |-> "", body |-> None, t0 |-> 0, session_id |-> 0,
     created |-> None, row |-> 0, access |-> None, refresh_token |-> None,
     expires_at |-> 0, result |-> ""]

\* generate_refresh_token: 32 random bytes; no two calls draw the same string
generate_refresh_token(c) == <<"rt", c>>

\* Uuid::new_v4().to_string() for the access token's jti
NewJti(c) == <<"jti", c>>

\* an issuer that leaves the cnf claim out
issue_access_token_unbound(sub, jkt, c) ==
    Token(TRUE, Issuer, <<Audience>>, sub, now + AccessTtl, None, Some(NewJti(c)), None)

\* AuthService::issue_access_token + JwtIssuer::sign: the claims of the minted token
issue_access_token(sub, jkt, c) ==
    Token(TRUE, Issuer, <<Audience>>, sub, now + AccessTtl, None, Some(NewJti(c)), jkt)

Fail(q, err) == [q EXCEPT !.pc = "done", !.result = err]

NextCall(c) == call[c].pc = "idle" /\ \A x \in CallIds : x < c => call[x].pc # "idle"

Observe(op, id, result) == [op |-> op, id |-> id, result |-> result]

\* handlers::token, issue branch, up to the answer of the session INSERT
\* (TokenService::issue_token_pair, auth_session_repo.create(sub, None))
token_issue(c, body, db_ok) ==
    /\ NextCall(c)
    /\ body.grant_type # Some("refresh_token")
    /\ LET q == [IdleCall EXCEPT !.op = "issue", !.body = Some(body)] IN
       IF ~IsSome(body.sub)
       THEN /\ call' = [call EXCEPT ![c] = Fail(q, "Internal")]
            /\ UNCHANGED sessions
       ELSE IF ~db_ok
       THEN /\ call' = [call EXCEPT ![c] = Fail(q, "Internal")]
            /\ UNCHANGED sessions
       ELSE /\ sessions' = create(Unwrap(body.sub), None)
            /\ call' = [call EXCEPT ![c] =
                          [q EXCEPT !.pc = "session", !.session_id = Len(sessions) + 1,
                                    !.created = Some(sessions'[Len(sessions) + 1])]]
    /\ UNCHANGED <<now, rsVars, refresh_tokens, obs, refresh_ttl>>

\* issue_token_pair after the session INSERT: sign the access token, draw the refresh
\* token, expires_at = Utc::now() + ttl_seconds
issue_mint(c, sign_ok) ==
    /\ call[c].pc = "session"
    /\ LET q == call[c]
           body == Unwrap(q.body)
       IN call' = [call EXCEPT ![c] =
            IF ~sign_ok THEN Fail(q, "Internal")
            ELSE [q EXCEPT !.pc = "minted",
                           !.access = Some(issue_access_token(Unwrap(body.sub), body.jkt, c)),
                           !.refresh_token = Some(generate_refresh_token(c)),
                           !.expires_at = now + refresh_ttl]]
    /\ UNCHANGED <<now, rsVars, sessions, refresh_tokens, obs, refresh_ttl>>

\* RefreshTokenService::issue_refresh_token: the refresh INSERT and the answer
issue_insert(c, db_ok) ==
    /\ call[c].pc = "minted"
    /\ LET q == call[c] IN
       IF ~db_ok
       THEN /\ call' = [call EXCEPT ![c] =
                          [Fail(q, "Internal") EXCEPT !.access = None, !.refresh_token = None]]
            /\ UNCHANGED refresh_tokens
       ELSE /\ refresh_tokens' = insert(q.session_id,
                                        hash_refresh_token(Unwrap(q.refresh_token)),
                                        q.expires_at, now)
            /\ call' = [call EXCEPT ![c] =
                          [q EXCEPT !.pc = "done", !.result = "Ok",
                                    !.row = Len(refresh_tokens) + 1]]
    /\ UNCHANGED <<now, rsVars, sessions, obs, refresh_ttl>>

\* handlers::token, refresh branch, up to the answer of find_active_by_hash; t0 is
\* TokenService::refresh's "let now = Utc::now()"
\* (TokenService::refresh, RefreshTokenService::validate_refresh_token)
token_refresh(c, body, db_ok) ==
    /\ NextCall(c)
    /\ body.grant_type = Some("refresh_token")
    /\ LET q == [IdleCall EXCEPT !.op = "refresh", !.body = Some(body), !.t0 = now]
           row == find_active_by_hash(hash_refresh_token(Unwrap(body.refresh_token)), q.t0)
       IN call' = [call EXCEPT ![c] =
            IF ~IsSome(body.refresh_token) THEN Fail(q, "Internal")
            ELSE IF ~db_ok THEN Fail(q, "Internal")
            ELSE IF ~IsSome(row) THEN Fail(q, "Unauthorized")
            ELSE [q EXCEPT !.pc = "found", !.row = Unwrap(row),
                           !.session_id = refresh_tokens[Unwrap(row)].session_id]]
    /\ UNCHANGED <<now, rsVars, sessions, refresh_tokens, obs, refresh_ttl>>

\* a refresh that rotates: the presented record is revoked and another token returned
refresh_session_rotating(c, db_ok, sign_ok) ==
    /\ call[c].pc = "found"
    /\ LET q == call[c]
           ctx == lookup_refresh_context(q.session_id)
           ok == db_ok /\ IsSome(ctx) /\ sign_ok
       IN /\ call' = [call EXCEPT ![c] =
               IF ~db_ok THEN Fail(q, "Internal")
               ELSE IF ~IsSome(ctx) THEN Fail(q, "Unauthorized")
               ELSE IF ~sign_ok THEN Fail(q, "Internal")
               ELSE [q EXCEPT !.pc = "done", !.result = "Ok",
                       !.access = Some(issue_access_token(Unwrap(ctx).user_id,
                                                          Unwrap(ctx).dpop_jkt, c)),
                       !.refresh_token = Some(generate_refresh_token(c))]]
          /\ refresh_tokens' = IF ok THEN refresh_revoke(q.row, None, now)
                               ELSE refresh_tokens
    /\ UNCHANGED <<now, rsVars, sessions, obs, refresh_ttl>>

\* validate_refresh_token after the refresh row was found: the session lookup, then
\* TokenService::refresh mints the access token for the session's user and jkt
refresh_session(c, db_ok, sign_ok) ==
    /\ call[c].pc = "found"
    /\ LET q == call[c]
           ctx == lookup_refresh_context(q.session_id)
       IN call' = [call EXCEPT ![c] =
               IF ~db_ok THEN Fail(q, "Internal")
               ELSE IF ~IsSome(ctx) THEN Fail(q, "Unauthorized")
               ELSE IF ~sign_ok THEN Fail(q, "Internal")
               ELSE [q EXCEPT !.pc = "done", !.result = "Ok",
                       !.access = Some(issue_access_token(Unwrap(ctx).user_id,
                                                          Unwrap(ctx).dpop_jkt, c)),
                       !.refresh_token = Unwrap(q.body).refresh_token]]
    /\ UNCHANGED <<now, rsVars, sessions, refresh_tokens, obs, refresh_ttl>>

\* RefreshTokenService::revoke_by_token(refresh_token, revoked_at = now) as a call of
\* its own, up to the answer of find_active_by_hash: Ok(0) when no active row is found
revoke_find(c, token, db_ok) ==
    /\ NextCall(c)
    /\ LET q == [IdleCall EXCEPT !.op = "revoke", !.t0 = now,
                   !.body = Some(TokenRequest(None, None, None, Some(token)))]
           row == find_active_by_hash(hash_refresh_token(token), q.t0)
       IN call' = [call EXCEPT ![c] =
            IF ~db_ok THEN Fail(q, "Internal")
            ELSE IF ~IsSome(row) THEN Fail(q, "0")
            ELSE [q EXCEPT !.pc = "revoking", !.row = Unwrap(row),
                           !.session_id = refresh_tokens[Unwrap(row)].session_id]]
    /\ UNCHANGED <<now, rsVars, sessions, refresh_tokens, obs, refresh_ttl>>

\* revoke_by_token after the row was found: RefreshTokenRepo::revoke(row.id, None,
\* revoked_at), answered with rows_affected
revoke_update(c, db_ok) ==
    /\ call[c].pc = "revoking"
    /\ LET q == call[c]
           after == refresh_revoke(q.row, None, q.t0)
       IN /\ refresh_tokens' = IF db_ok THEN after ELSE refresh_tokens
          /\ call' = [call EXCEPT ![c] =
                IF ~db_ok THEN Fail(q, "Internal")
                ELSE Fail(q, IF after[q.row] # refresh_tokens[q.row] THEN "1" ELSE "0")]
    /\ UNCHANGED <<now, rsVars, sessions, obs, refresh_ttl>>

\* RefreshTokenService::revoke_by_token(refresh_token, revoked_at): the active row of
\* the token, if any, is revoked (find_active_by_hash, then RefreshTokenRepo::revoke,
\* taken as one step)
revoke_by_token(token, t) ==
    /\ LET row == find_active_by_hash(hash_refresh_token(token), t) IN
       refresh_tokens' = IF IsSome(row) THEN refresh_revoke(Unwrap(row), None, t)
                         ELSE refresh_tokens
    /\ UNCHANGED <<now, rsVars, sessions, call, obs, refresh_ttl>>

----------------------------------------------------------------------------
(* AuthSessionRepo called directly (administration, tests); the caller passes the
   timestamps *)

repo_create(user_id, dpop_jkt) ==
    /\ Len(sessions) < MaxSessions
    /\ sessions' = create(user_id, dpop_jkt)
    /\ obs' = Observe("create", Len(sessions) + 1, Some(sessions'[Len(sessions) + 1]))
    /\ UNCHANGED <<now, rsVars, refresh_tokens, call, refresh_ttl>>

repo_get_active_by_id(id) ==
    /\ obs' = Observe("get_active_by_id", id, get_active_by_id(id))
    /\ UNCHANGED <<now, rsVars, sessions, refresh_tokens, call, refresh_ttl>>

repo_lookup_refresh_context(id) ==
    /\ obs' = Observe("lookup_refresh_context", id, lookup_refresh_context(id))
    /\ UNCHANGED <<now, rsVars, sessions, refresh_tokens, call, refresh_ttl>>

\* rows_affected() of the three UPDATE statements
Rows(id) == Some(Cardinality(ActiveRows(id)))

repo_touch_last_used(id, t) ==
    /\ sessions' = touch_last_used(id, t)
    /\ obs' = Observe("touch_last_used", id, Rows(id))
    /\ UNCHANGED <<now, rsVars, refresh_tokens, call, refresh_ttl>>

repo_set_dpop_jkt(id, dpop_jkt) ==
    /\ sessions' = set_dpop_jkt(id, dpop_jkt)
    /\ obs' = Observe("set_dpop_jkt", id, Rows(id))
    /\ UNCHANGED <<now, rsVars, refresh_tokens, call, refresh_ttl>>

repo_revoke(id, t) ==
    /\ sessions' = revoke(id, t)
    /\ obs' = Observe("revoke", id, Rows(id))
    /\ UNCHANGED <<now, rsVars, refresh_tokens, call, refresh_ttl>>

----------------------------------------------------------------------------
(* Inputs of the resource-server specification *)

Uri0 == [path |-> "/r", query |-> None]
Htu0 == Url("https", "api", 0, "/r", None)
BaseUrl0 == Url("https", "api", 0, "/", None)
Host0 == Some([name |-> "api", port |-> 0])

\* A token the authorization server minted for user u, bound to key k (or unbound)
GoodToken(u, jkt) == Token(TRUE, Issuer, <<Audience>>, u, MaxTime + 2, None, Some(<<"jti", u>>), jkt)

\* A proof made by the holder of key k for GET Htu0 with access token tok
GoodProof(k, jti, iat, tok) ==
    Proof(Some("dpop+jwt"), "EdDSA", Some(Jwk("OKP", "Ed25519", k)), k,
          Some("GET"), Some(Htu0), Some(iat), Some(jti), Some(compute_ath(tok)), None)

Get(tok, proofs) == Request("bearer", tok, proofs, "GET", Uri0, None, None, Host0)

T1 == GoodToken("u1", Some(Jkt("k1")))
T2 == GoodToken("u2", None)
P1 == GoodProof("k1", "j1", 0, T1)

\* the presentations of the replay scenarios: valid ones by two users (u1 with two
\* proofs, u2 with u1's jti), and u1's proof j1 on another method
Presentations ==
    { Get(T1, <<P1>>),
      Get(T1, <<GoodProof("k1", "j2", 1, T1)>>),
      Get(T2, <<GoodProof("k2", "j1", 0, T2)>>),
      [Get(T1, <<P1>>) EXCEPT !.method = "POST"] }

\* the presentations made to the root crate's middleware
RootPresentations ==
    { Get(T1, <<P1>>),
      [Get(T1, <<P1>>) EXCEPT !.method = "POST"] }

\* one access token per way of failing (or passing) verify_verified
TokenCases(T) ==
    { T,
      [T EXCEPT !.sig = FALSE],
      [T EXCEPT !.iss = "other"],
      [T EXCEPT !.aud = <<>>],
      [T EXCEPT !.aud = <<"other">>],
      [T EXCEPT !.aud = <<"other", Audience>>],
      [T EXCEPT !.sub = ""],
      [T EXCEPT !.sub = "not-a-uuid"],
      [T EXCEPT !.sub = "U1"],
      [T EXCEPT !.exp = 0],
      [T EXCEPT !.exp = 1],
      [T EXCEPT !.nbf = Some(MaxTime + 2)] }

\* one proof per way of failing (or passing) verify_proof, made for access token tok
ProofCases(P, tok) ==
    { P,
      [P EXCEPT !.wf = FALSE],
      [P EXCEPT !.typ = None],
      [P EXCEPT !.typ = Some("jwt")],
      [P EXCEPT !.typ = Some("DPoP+JWT")],
      [P EXCEPT !.alg = "ES256"],
      [P EXCEPT !.jwk = None],
      [P EXCEPT !.jwk = Some(Jwk("OKP", "Ed25519", "!"))],
      [P EXCEPT !.jwk = Some(Jwk("EC", "P-256", P.signer))],
      [P EXCEPT !.jwk = Some(Jwk("OKP", "P-256", P.signer))],
      [P EXCEPT !.jwk = Some(Jwk("OKP", "Ed25519", "k2")), !.signer = "k2"],
      [P EXCEPT !.signer = "k2"],
      [P EXCEPT !.htm = None],
      [P EXCEPT !.htm = Some("Get")],
      [P EXCEPT !.htm = Some("POST")],
      [P EXCEPT !.htu = None],
      [P EXCEPT !.htu = Some(Url("HTTPS", "Api", 443, "/r", None))],
      [P EXCEPT !.htu = Some(Url("https", "api", 8443, "/r", None))],
      [P EXCEPT !.htu = Some(Url("http", "api", 0, "/r", None))],
      [P EXCEPT !.htu = Some(Url("https", "api", 0, "/other", None))],
      [P EXCEPT !.htu = Some(Url("https", "api", 0, "/r", Some("a=1")))],
      [P EXCEPT !.iat = None],
      [P EXCEPT !.iat = Some(2)],
      [P EXCEPT !.iat = Some(MaxTime)],
      [P EXCEPT !.jti = None],
      [P EXCEPT !.htm = None, !.jti = None],
      [P EXCEPT !.htu = None, !.iat = None],
      [P EXCEPT !.iat = None, !.jti = None, !.ath = None],
      [P EXCEPT !.ath = None],
      [P EXCEPT !.ath = Some(compute_ath([tok EXCEPT !.sub = "u2"]))],
      [P EXCEPT !.nonce = Some("n")] }

\* the requests of the verification scenarios
VerifyInputs ==
    {Get(t, <<P1>>) : t \in TokenCases(T1)}
    \cup {Get(T1, <<p>>) : p \in ProofCases(P1, T1)}
    \cup {Get(T2, <<p>>) : p \in ProofCases(GoodProof("k2", "j1", 0, T2), T2)}
    \cup { [Get(T1, <<P1>>) EXCEPT !.auth = "none"],
           [Get(T1, <<P1>>) EXCEPT !.auth = "basic"],
           Get(T1, <<>>),
           Get(T1, <<P1, [P1 EXCEPT !.wf = FALSE]>>),
           Get(T1, <<P1, P1>>),
           [Get(T1, <<P1>>) EXCEPT !.method = "POST"],
           [Get(T1, <<P1>>) EXCEPT !.uri = [path |-> "/other", query |-> None]],
           [Get(T1, <<P1>>) EXCEPT !.uri = [path |-> "/r", query |-> Some("a=1")]],
           [Get(T1, <<P1>>) EXCEPT !.headers.xfp = Some("https")],
           [Get(T1, <<P1>>) EXCEPT !.headers.xfp = Some("https"),
                                   !.headers.xfh = Some([name |-> "evil", port |-> 0])],
           [Get(T1, <<P1>>) EXCEPT !.headers.host = None] }

\* DPOP_* settings of the replay scenarios (seconds scaled to the model's clock)
Policies ==
    { DpopPolicy(TRUE, 1, 1, TRUE, FALSE, 2),
      DpopPolicy(TRUE, 0, 3, TRUE, FALSE, 0),
      DpopPolicy(FALSE, 1, 1, TRUE, FALSE, 2) }

RefreshTtl == 2     \* REFRESH_TOKEN_TTL_SECONDS, scaled to the model's clock

InitAS ==
    /\ sessions = <<>>
    /\ refresh_tokens = <<>>
    /\ call = [c \in CallIds |-> IdleCall]
    /\ obs = Observe("none", 0, None)

InitRS ==
    /\ store = <<>>
    /\ req = [r \in ReqIds |-> Idle]

Init ==
    /\ now = 0
    /\ policy \in Policies
    /\ base_url = Some(BaseUrl0)
    /\ refresh_ttl = RefreshTtl
    /\ InitRS
    /\ InitAS

Next ==
    \/ \E r \in ReqIds, inp \in Presentations : access_middleware(r, inp)
    \/ \E r \in ReqIds, inp \in RootPresentations : access_middleware_root(r, inp)
    \/ \E r \in ReqIds : check_and_store(r)
    \/ \E r \in ReqIds : check_and_store_error(r)
    \/ \E r \in ReqIds : access_resume(r)
    \/ \E k \in DOMAIN store : Expire(k)
    \/ Tick

\* Replay scenarios: concurrent presentations of valid proofs on both middlewares
Spec == Init /\ [][Next]_vars

\* DPOP_* and PUBLIC_BASE_URL settings of the verification scenarios
VerifyPolicies ==
    { DpopPolicy(required, 1, 1, require_ath, require_nonce, 2) :
        required \in BOOLEAN, require_ath \in BOOLEAN, require_nonce \in BOOLEAN }

BaseUrls == { None, Some(BaseUrl0), Some([BaseUrl0 EXCEPT !.parse = FALSE]) }

InitVerify ==
    /\ now = 0
    /\ policy \in VerifyPolicies
    /\ base_url \in BaseUrls
    /\ refresh_ttl = RefreshTtl
    /\ InitRS
    /\ InitAS

\* two requests: the first is any of VerifyInputs, the second a presentation of the
\* replay scenarios
NextVerify ==
    \/ \E inp \in VerifyInputs : access_middleware(1, inp)
    \/ \E inp \in Presentations : access_middleware(2, inp)
    \/ \E r \in {1, 2} : check_and_store(r)
    \/ \E r \in {1, 2} : check_and_store_error(r)
    \/ \E r \in {1, 2} : access_resume(r)
    \/ \E k \in DOMAIN store : Expire(k)
    \/ Tick

\* Verification scenarios: one request per way of passing or failing a check
SpecVerify == InitVerify /\ [][NextVerify]_vars

----------------------------------------------------------------------------
(* Inputs of the authorization-server specification *)

Jkts == {Jkt(k) : k \in ClientKeys}

IssueBodies ==
    { TokenRequest(None, None, Some(Jkt("k1")), None),
      TokenRequest(None, Some("u1"), Some(Jkt("k1")), None),
      TokenRequest(None, Some("u2"), None, None),
      TokenRequest(Some("password"), Some("u2"), Some(Jkt("k2")), None) }

\* refresh tokens a client can present: every one a call drew, and one never issued
RefreshBodies ==
    { TokenRequest(Some("refresh_token"), None, None, rt) :
        rt \in {None, Some(<<"rt", 0>>)} \cup {Some(generate_refresh_token(c)) : c \in CallIds} }

InitToken ==
    /\ now = 0
    /\ policy = DpopPolicy(TRUE, 1, 1, TRUE, FALSE, 2)
    /\ base_url = Some(BaseUrl0)
    /\ refresh_ttl \in {0, RefreshTtl}
    /\ InitRS
    /\ InitAS

NextToken ==
    \/ \E c \in CallIds, body \in IssueBodies, db_ok \in BOOLEAN : token_issue(c, body, db_ok)
    \/ \E c \in CallIds, sign_ok \in BOOLEAN : issue_mint(c, sign_ok)
    \/ \E c \in CallIds, db_ok \in BOOLEAN : issue_insert(c, db_ok)
    \/ \E c \in CallIds, body \in RefreshBodies, db_ok \in BOOLEAN : token_refresh(c, body, db_ok)
    \/ \E c \in CallIds, db_ok \in BOOLEAN, sign_ok \in BOOLEAN : refresh_session(c, db_ok, sign_ok)
    \/ \E id \in SessionIds : ~Revoked(sessions[id]) /\ repo_revoke(id, now)
    \/ Tick

\* Token scenarios: concurrent calls of the token endpoint, and session revocation
SpecToken == InitToken /\ [][NextToken]_vars

\* the refresh tokens stored so far, as their holders know them
IssuedTokens == { generate_refresh_token(c) : c \in {c \in CallIds : call[c].row # 0 /\ call[c].op = "issue"} }

InitRefresh ==
    /\ now = 0
    /\ policy = DpopPolicy(TRUE, 1, 1, TRUE, FALSE, 2)
    /\ base_url = Some(BaseUrl0)
    /\ refresh_ttl \in {1, RefreshTtl}
    /\ InitRS
    /\ InitAS

\* one issue call, then refresh calls; sessions and refresh tokens are revoked and
\* the clock advances at any point
NextRefresh ==
    \/ \E body \in IssueBodies, db_ok \in BOOLEAN : token_issue(1, body, db_ok)
    \/ \E sign_ok \in BOOLEAN : issue_mint(1, sign_ok)
    \/ \E db_ok \in BOOLEAN : issue_insert(1, db_ok)
    \/ \E c \in CallIds \ {1}, body \in RefreshBodies, db_ok \in BOOLEAN :
          token_refresh(c, body, db_ok)
    \/ \E c \in CallIds \ {1}, db_ok \in BOOLEAN, sign_ok \in BOOLEAN :
          refresh_session(c, db_ok, sign_ok)
    \/ \E id \in SessionIds : ~Revoked(sessions[id]) /\ repo_revoke(id, now)
    \/ \E token \in IssuedTokens : revoke_by_token(token, now)
    \/ Tick

\* Refresh scenarios: refresh calls against a session that is revoked, a refresh token
\* that is revoked, and a refresh token that expires
SpecRefresh == InitRefresh /\ [][NextRefresh]_vars

\* the resource server's verify_verified applied, at the current time, to the access
\* token that call c returned to its client
verify_minted(c) ==
    /\ call[c].pc = "done" /\ call[c].result = "Ok"
    /\ obs' = Observe("verify_verified", c,
                      Some([at |-> now,
                            out |-> verify_verified(Unwrap(call[c].access), now)]))
    /\ UNCHANGED <<now, rsVars, sessions, refresh_tokens, call, refresh_ttl>>

InitRoundTrip ==
    /\ now = 0
    /\ policy = DpopPolicy(TRUE, 1, 1, TRUE, FALSE, 2)
    /\ base_url = Some(BaseUrl0)
    /\ refresh_ttl = RefreshTtl
    /\ InitRS
    /\ InitAS

NextRoundTrip ==
    \/ \E body \in IssueBodies, db_ok \in BOOLEAN : token_issue(1, body, db_ok)
    \/ \E sign_ok \in BOOLEAN : issue_mint(1, sign_ok)
    \/ \E db_ok \in BOOLEAN : issue_insert(1, db_ok)
    \/ \E c \in CallIds \ {1}, body \in RefreshBodies, db_ok \in BOOLEAN :
          token_refresh(c, body, db_ok)
    \/ \E c \in CallIds \ {1}, db_ok \in BOOLEAN, sign_ok \in BOOLEAN :
          refresh_session(c, db_ok, sign_ok)
    \/ \E c \in CallIds : verify_minted(c)
    \/ Tick

\* Round-trip scenarios: access tokens minted by the issue and refresh calls are
\* verified by the resource server at any later time
SpecRoundTrip == InitRoundTrip /\ [][NextRoundTrip]_vars

\* DPOP_IAT_LEEWAY_SECONDS and DPOP_MAX_AGE_SECONDS, each zero or not
IatPolicies ==
    { DpopPolicy(TRUE, leeway, max_age, TRUE, FALSE, 2) :
        leeway \in {0, 1}, max_age \in {0, 1} }

\* iat claims from before the window to after it, whatever the time of arrival
IatValues == (0 - 3)..(MaxTime + 2)

\* valid presentations by u1 whose proofs were made at every iat, with two jti
IatPresentations ==
    { Get(T1, <<GoodProof("k1", jti, iat, T1)>>) : jti \in {"j1", "j2"}, iat \in IatValues }

InitIat ==
    /\ now \in 0..MaxTime
    /\ policy \in IatPolicies
    /\ base_url = Some(BaseUrl0)
    /\ refresh_ttl = RefreshTtl
    /\ InitRS
    /\ InitAS

NextIat ==
    \/ \E r \in ReqIds, inp \in IatPresentations : access_middleware(r, inp)
    \/ \E r \in ReqIds : check_and_store(r)
    \/ \E r \in ReqIds : access_resume(r)

\* Window scenarios: at a fixed time, proofs of every age arrive
SpecIat == InitIat /\ [][NextIat]_vars

\* refresh tokens two earlier issue calls returned, for u1 and for u2
EarlierTokens == { <<"rt", 0 - 1>>, <<"rt", 0 - 2>> }

\* the refresh requests of the concurrent scenarios: the earlier tokens, and one
\* never issued
ConcurrentRefreshBodies ==
    { TokenRequest(Some("refresh_token"), None, None, Some(rt)) :
        rt \in EarlierTokens \cup {<<"rt", 0>>} }

\* the tables after issue_token_pair ran for u1 and for u2 at time 0
InitConcurrent ==
    /\ now = 0
    /\ policy = DpopPolicy(TRUE, 1, 1, TRUE, FALSE, 2)
    /\ base_url = Some(BaseUrl0)
    /\ refresh_ttl = RefreshTtl
    /\ InitRS
    /\ sessions = <<AuthSessionRow("u1", None), AuthSessionRow("u2", None)>>
    /\ refresh_tokens =
         <<RefreshTokenRow(1, hash_refresh_token(<<"rt", 0 - 1>>), RefreshTtl, 0),
           RefreshTokenRow(2, hash_refresh_token(<<"rt", 0 - 2>>), RefreshTtl, 0)>>
    /\ call = [c \in CallIds |-> IdleCall]
    /\ obs = Observe("none", 0, None)

NextConcurrent ==
    \/ \E c \in CallIds, body \in ConcurrentRefreshBodies : token_refresh(c, body, TRUE)
    \/ \E c \in CallIds : refresh_session(c, TRUE, TRUE)
    \/ \E c \in CallIds : token_issue(c, TokenRequest(None, Some("u2"), None, None), TRUE)
    \/ \E c \in CallIds : issue_mint(c, TRUE)
    \/ \E c \in CallIds : issue_insert(c, TRUE)
    \/ \E id \in SessionIds : ~Revoked(sessions[id]) /\ repo_revoke(id, now)
    \/ \E token \in EarlierTokens : revoke_by_token(token, now)

\* Concurrent scenarios: refresh, issue and revoke calls interleaved at every await
\* within one second, the database and the signer working
SpecConcurrent == InitConcurrent /\ [][NextConcurrent]_vars

\* the presentations of the cancellation scenarios: one proof of u1, one of u2
CancelPresentations ==
    { Get(T1, <<P1>>),
      Get(T2, <<GoodProof("k2", "j1", 0, T2)>>) }

InitCancel ==
    /\ now = 0
    /\ policy \in {DpopPolicy(TRUE, 1, 1, TRUE, FALSE, 2), DpopPolicy(TRUE, 0, 3, TRUE, FALSE, 0)}
    /\ base_url = Some(BaseUrl0)
    /\ refresh_ttl = RefreshTtl
    /\ InitRS
    /\ InitAS

NextCancel ==
    \/ \E r \in ReqIds, inp \in CancelPresentations : access_middleware(r, inp)
    \/ \E r \in ReqIds : check_and_store(r)
    \/ \E r \in ReqIds : access_resume(r)
    \/ \E r \in ReqIds : cancel(r)
    \/ \E k \in DOMAIN store : Expire(k)
    \/ Tick

\* Replay scenarios in which requests are cancelled while they wait
SpecCancel == InitCancel /\ [][NextCancel]_vars

\* presentations of the token of u1's session
SessionPresentations ==
    { Get(T1, <<P1>>),
      Get(T1, <<GoodProof("k1", "j2", 1, T1)>>),
      Get(T1, <<GoodProof("k2", "j3", 0, T1)>>),
      Get([T1 EXCEPT !.sig = FALSE], <<P1>>) }

\* u1 holds a session bound to k1 and the access token T1 minted for it
InitRevocation ==
    /\ now = 0
    /\ policy \in {DpopPolicy(TRUE, 1, 1, TRUE, FALSE, 2), DpopPolicy(FALSE, 1, 1, TRUE, FALSE, 2)}
    /\ base_url = Some(BaseUrl0)
    /\ refresh_ttl = RefreshTtl
    /\ InitRS
    /\ sessions = <<AuthSessionRow("u1", Some(Jkt("k1")))>>
    /\ refresh_tokens = <<>>
    /\ call = [c \in CallIds |-> IdleCall]
    /\ obs = Observe("none", 0, None)

NextRevocation ==
    \/ \E r \in ReqIds, inp \in SessionPresentations : access_middleware(r, inp)
    \/ \E r \in ReqIds : check_and_store(r)
    \/ \E r \in ReqIds : access_resume(r)
    \/ \E id \in SessionIds : ~Revoked(sessions[id]) /\ repo_revoke(id, now)
    \/ Tick

\* The resource server while the authorization server revokes the token's session
SpecRevocation == InitRevocation /\ [][NextRevocation]_vars

\* the refresh tokens a caller may hand to revoke_by_token or refresh: the two issued,
\* and one never issued
PresentedTokens == EarlierTokens \cup {<<"rt", 0>>}

NextRevoke ==
    \/ \E c \in CallIds, token \in PresentedTokens, db_ok \in BOOLEAN :
          revoke_find(c, token, db_ok)
    \/ \E c \in CallIds, db_ok \in BOOLEAN : revoke_update(c, db_ok)
    \/ \E c \in CallIds, body \in ConcurrentRefreshBodies : token_refresh(c, body, TRUE)
    \/ \E c \in CallIds : refresh_session(c, TRUE, TRUE)
    \/ Tick

\* Revocation scenarios: revoke_by_token and refresh calls on the tokens of two
\* sessions, interleaved at every await, while the clock advances
SpecRevoke == InitConcurrent /\ [][NextRevoke]_vars

\* absolute http(s) URIs as a client or a proxy may write them
HtuCases ==
    { Url(scheme, host, port, path, query) :
        scheme \in {"http", "HTTP", "https"}, host \in {"host", "Host"},
        port \in {0, 80, 443, 8080}, path \in {"/a", "/", "", "/x/../a"},
        query \in {None, Some("b=1")} }

InitHtu ==
    /\ now = 0
    /\ policy = DpopPolicy(TRUE, 1, 1, TRUE, FALSE, 2)
    /\ base_url = None
    /\ refresh_ttl = RefreshTtl
    /\ InitRS
    /\ sessions = <<>>
    /\ refresh_tokens = <<>>
    /\ call = [c \in CallIds |-> IdleCall]
    /\ \E htu \in HtuCases, expected_htu \in HtuCases :
         obs = Observe("none", <<htu, expected_htu>>, None)

\* verify_proof's htu check: both sides normalized, then compared
htu_check ==
    /\ obs.op = "none"
    /\ LET htu == normalize_htu(obs.id[1])
           expected_htu == normalize_htu(obs.id[2])
       IN obs' = Observe("htu", obs.id,
                         Some([htu |-> htu, expected_htu |-> expected_htu,
                               err |-> IF htu # expected_htu THEN "UriMismatch" ELSE "Ok"]))
    /\ UNCHANGED <<now, rsVars, sessions, refresh_tokens, call, refresh_ttl>>

NextHtu == htu_check

\* The htu comparison on every pair of URIs
SpecHtu == InitHtu /\ [][NextHtu]_vars

\* timestamps a caller of the repository passes: an earlier and a later one
Stamps == {0, 1}

\* sessions as the repository's callers create them: unbound, or bound at creation
NewSessions == { <<"u1", None>>, <<"u2", Some(Jkt("k1"))>> }

InitSession ==
    /\ now = 0
    /\ policy = DpopPolicy(TRUE, 1, 1, TRUE, FALSE, 2)
    /\ base_url = Some(BaseUrl0)
    /\ refresh_ttl = RefreshTtl
    /\ InitRS
    /\ InitAS

NextSession ==
    \/ \E n \in NewSessions : repo_create(n[1], n[2])
    \/ \E id \in 1..MaxSessions : repo_get_active_by_id(id)
    \/ \E id \in 1..MaxSessions : repo_lookup_refresh_context(id)
    \/ \E id \in 1..MaxSessions : repo_touch_last_used(id, 1)
    \/ \E id \in 1..MaxSessions, jkt \in Jkts : repo_set_dpop_jkt(id, jkt)
    \/ \E id \in 1..MaxSessions, t \in Stamps : repo_revoke(id, t)

\* Session scenarios: any sequence of AuthSessionRepo calls
SpecSession == InitSession /\ [][NextSession]_vars

----------------------------------------------------------------------------
(* Properties of the replay defence *)

AbsDiff(a, b) == IF a >= b THEN a - b ELSE b - a

\* the proof a request presents (the first DPoP header value)
ProofOf(q) == Unwrap(q.inp).headers.dpop[1]
TokenOf(q) == Unwrap(q.inp).token

\* the request passed every token and proof check
PassedChecks(q) == q.pc \in {"replay", "claimed"} \/ q.handler

\* C1: on the resource server with policy.required, two requests admitted for the same
\* replay key dpop:<user_id>:<jti> had their claims stored at least replay_ttl_seconds
\* apart (so at most one is admitted per window), every admitted request has a replay
\* key, and every finished request that was not admitted was answered 401.
C1_OneAdmissionPerWindow ==
    policy.required =>
      \A a \in ReqIds :
        req[a].mw = "rs" =>
          /\ req[a].handler => IsSome(req[a].key)
          /\ (req[a].pc = "done" /\ ~req[a].handler) => req[a].status = 401
          /\ \A b \in ReqIds \ {a} :
               (req[b].mw = "rs" /\ req[a].handler /\ req[b].handler
                  /\ req[a].key = req[b].key)
               => AbsDiff(req[a].claimAt, req[b].claimAt) >= policy.replay_ttl_seconds

\* one of two presentations of the same proof was admitted, the other answered 401 as a
\* replay
C1_Witness ==
    /\ policy.required
    /\ \E a, b \in ReqIds :
         /\ a # b /\ req[a].mw = "rs" /\ req[b].mw = "rs"
         /\ IsSome(req[a].key) /\ req[a].key = req[b].key
         /\ req[a].handler
         /\ req[b].status = 401 /\ req[b].reason = "Replay"

C2_State ==
    \A a, b \in ReqIds :
      (a # b /\ IsSome(req[a].key) /\ req[a].key = req[b].key
         /\ req[a].first_time = "true" /\ req[b].first_time = "true")
      => AbsDiff(req[a].claimAt, req[b].claimAt) >= Max(policy.replay_ttl_seconds, 1)

C2_Step ==
    \A r \in ReqIds :
      (req[r].pc = "replay" /\ req'[r].pc = "claimed" /\ req'[r].first_time # "err") =>
        LET key == FullKey(Unwrap(req[r].key)) IN
        /\ req'[r].first_time = "true" <=> key \notin DOMAIN store
        /\ req'[r].first_time = "true" =>
             /\ key \in DOMAIN store'
             /\ store'[key] = now + Max(policy.replay_ttl_seconds, 1)
             /\ \A k \in DOMAIN store : k \in DOMAIN store' /\ store'[k] = store[k]
        /\ req'[r].first_time = "false" => store' = store

\* C2: check_and_store answers Ok(true) iff the key does not exist when the command
\* runs, and that same step sets the key with the TTL (at least 1 second) and touches
\* no other key; an answer Ok(false) leaves the keyspace as it was; two callers on the
\* same key both answered Ok(true) are at least a TTL apart.
C2_AtomicSetIfAbsent == []C2_State /\ [][C2_Step]_vars

\* two callers raced on one absent key: one was answered Ok(true), the other Ok(false)
C2_Witness ==
    \E a, b \in ReqIds :
      /\ a # b /\ IsSome(req[a].key) /\ req[a].key = req[b].key
      /\ req[a].first_time = "true" /\ req[b].first_time = "false"
      /\ req[a].claimAt = req[b].claimAt

\* C3: fail closed: a request whose check_and_store ended in a backend error never
\* reaches the handler and is answered 401, for a reason that is not the replay answer.
C3_FailClosed ==
    \A r \in ReqIds :
      req[r].first_time = "err" =>
        /\ ~req[r].handler
        /\ req[r].pc = "done" => (req[r].status = 401 /\ req[r].reason = "ReplayBackend")

\* a request was answered 401 after the store failed
C3_Witness ==
    \E r \in ReqIds :
      req[r].first_time = "err" /\ req[r].pc = "done" /\ req[r].status = 401

C4_Step ==
    /\ \A r \in ReqIds :
         (req[r].pc = "idle" /\ req'[r].pc # "idle") =>
           LET inp == Unwrap(req'[r].inp)
               claims == verify_verified(inp.token, now)
               v == verify_proof(policy, inp.headers, inp.method, inp.uri,
                                 Some(inp.token), claims.cnf_jkt, base_url, now)
           IN (inp.auth # "bearer" \/ ~claims.ok \/ ~v.ok) =>
                /\ req'[r].pc = "done" /\ req'[r].status = 401
                /\ req'[r].first_time = "none"
                /\ store' = store
    /\ \A r \in ReqIds : req'[r].first_time # req[r].first_time => req[r].pc = "replay"
    /\ \A k \in DOMAIN store' :
         (k \notin DOMAIN store \/ store'[k] # store[k]) =>
           \E r \in ReqIds : req[r].pc = "replay" /\ k = FullKey(Unwrap(req[r].key))

\* C4: a request that fails the Authorization, access-token or DPoP checks is answered
\* 401 in the step that receives it, calls check_and_store never and leaves the replay
\* store unchanged; only a request that passed every check calls check_and_store, and
\* only such a call adds or renews a key.
C4_ClaimAfterChecks == [][C4_Step]_vars

\* u1's proof j1 was rejected for a token or proof reason, and a later valid request
\* with the same jti was admitted as first-time
C4_Witness ==
    /\ req[1].pc = "done" /\ req[1].status = 401
    /\ req[1].reason \notin {"Replay", "ReplayBackend", "Authorization"}
    /\ TokenOf(req[1]).sub = "u1"
    /\ Unwrap(req[1].inp).headers.dpop # <<>>
    /\ ProofOf(req[1]).jti = Some("j1")
    /\ req[2].handler /\ req[2].first_time = "true"
    /\ req[2].key = Some(ReplayKey("u1", "j1"))

\* C5: with policy.required, whenever the handler ran for a request, on either
\* middleware, a check_and_store call for its key dpop:<user_id>:<jti> had answered
\* first-time before.
C5_HandlerAfterClaim ==
    policy.required =>
      \A r \in ReqIds :
        req[r].handler => (IsSome(req[r].key) /\ req[r].first_time = "true")

----------------------------------------------------------------------------
(* Properties of proof verification *)

\* C6: with a token carrying cnf.jkt = J, a request passes the checks only if its proof
\* embeds a JWK whose RFC 7638 thumbprint is J; a request answered JktMismatch carried
\* a key with another thumbprint and is not admitted.
C6_SenderConstraint ==
    policy.required =>
      \A r \in ReqIds :
        (req[r].pc # "idle" /\ IsSome(TokenOf(req[r]).cnf_jkt)) =>
          /\ PassedChecks(req[r]) =>
               /\ Unwrap(req[r].inp).headers.dpop # <<>>
               /\ IsSome(ProofOf(req[r]).jwk)
               /\ compute_jwk_thumbprint(Unwrap(ProofOf(req[r]).jwk)).ok
               /\ compute_jwk_thumbprint(Unwrap(ProofOf(req[r]).jwk)).jkt
                    = Unwrap(TokenOf(req[r]).cnf_jkt)
          /\ req[r].reason = "JktMismatch" =>
               /\ req[r].status = 401 /\ ~req[r].handler
               /\ compute_jwk_thumbprint(Unwrap(ProofOf(req[r]).jwk)).jkt
                    # Unwrap(TokenOf(req[r]).cnf_jkt)

\* a proof made with key k2 for u1's token (bound to k1) was answered JktMismatch, and
\* a proof made with k1 was admitted
C6_Witness ==
    /\ req[1].reason = "JktMismatch" /\ req[1].status = 401
    /\ req[2].handler /\ IsSome(TokenOf(req[2]).cnf_jkt)

\* C7: with policy.require_ath, a request passes the checks only if its proof's ath is
\* the hash of the access token the request carries; a request answered AthMismatch
\* carried an ath that is not that hash and is not admitted.
C7_AthBinding ==
    (policy.required /\ policy.require_ath) =>
      \A r \in ReqIds :
        req[r].pc # "idle" =>
          /\ PassedChecks(req[r]) =>
               /\ Unwrap(req[r].inp).headers.dpop # <<>>
               /\ ProofOf(req[r]).ath = Some(compute_ath(TokenOf(req[r])))
          /\ req[r].reason = "AthMismatch" =>
               /\ req[r].status = 401 /\ ~req[r].handler
               /\ IsSome(ProofOf(req[r]).ath)
               /\ ProofOf(req[r]).ath # Some(compute_ath(TokenOf(req[r])))

\* a proof whose ath was computed for another token was answered AthMismatch, and a
\* proof with the right ath was admitted
C7_Witness ==
    /\ policy.require_ath
    /\ req[1].reason = "AthMismatch" /\ req[1].status = 401
    /\ req[2].handler

----------------------------------------------------------------------------
(* Properties of sessions and refresh *)

\* C8: for every successful issue request with sub = S and jkt = J, the session is
\* created with subject S and dpop_jkt J, and every successful refresh of the refresh
\* token it returned answers an access token with sub = S and cnf.jkt = J.
C8_RefreshInheritsBinding ==
    \A c \in CallIds :
      (call[c].op = "issue" /\ call[c].result = "Ok"
         /\ IsSome(Unwrap(call[c].body).jkt)) =>
        /\ sessions[call[c].session_id].user_id = Unwrap(Unwrap(call[c].body).sub)
        /\ sessions[call[c].session_id].dpop_jkt = Unwrap(call[c].body).jkt
        /\ \A d \in CallIds :
             (call[d].op = "refresh" /\ call[d].result = "Ok"
                /\ call[d].refresh_token = call[c].refresh_token) =>
               /\ Unwrap(call[d].access).sub = Unwrap(Unwrap(call[c].body).sub)
               /\ Unwrap(call[d].access).cnf_jkt = Unwrap(call[c].body).jkt

\* C9: once a session's dpop_jkt is non-null, no repository call changes it.
C9_WriteOnceThumbprint ==
    [][\A id \in DOMAIN sessions :
         IsSome(sessions[id].dpop_jkt) => sessions'[id].dpop_jkt = sessions[id].dpop_jkt]_vars

C10_Lookup ==
    obs.op \in {"get_active_by_id", "lookup_refresh_context"} =>
      (IsSome(obs.result) <=> (obs.id \in SessionIds /\ sessions[obs.id].revoked_at = None))

C10_Step ==
    /\ \A id \in DOMAIN sessions :
         IsSome(sessions[id].revoked_at) =>
           /\ id \in DOMAIN sessions'
           /\ sessions'[id].revoked_at = sessions[id].revoked_at
    /\ (obs'.op = "revoke" /\ obs' # obs /\ obs'.id \in DOMAIN sessions
          /\ IsSome(sessions[obs'.id].revoked_at))
       => (obs'.result = Some(0) /\ sessions' = sessions)

\* C10: once a session's revoked_at is set no repository call clears or overwrites it,
\* a revoke of an already-revoked session affects 0 rows, and a lookup finds a session
\* iff it exists with revoked_at null.
C10_RevocationMonotone == []C10_Lookup /\ [][C10_Step]_vars

\* a revoked session was revoked again, and the second call affected no row
C10_Witness ==
    /\ obs.op = "revoke" /\ obs.result = Some(0)
    /\ obs.id \in SessionIds
    /\ IsSome(sessions[obs.id].revoked_at)

----------------------------------------------------------------------------
(* Properties of the refresh path *)

\* the refresh records stored for the refresh token a call presented
RowsOfToken(c) ==
    { i \in DOMAIN refresh_tokens :
        /\ IsSome(Unwrap(call[c].body).refresh_token)
        /\ refresh_tokens[i].token_hash
             = hash_refresh_token(Unwrap(Unwrap(call[c].body).refresh_token)) }

ActiveRowsOfToken(c, t) ==
    { i \in RowsOfToken(c) :
        refresh_tokens[i].revoked_at = None /\ refresh_tokens[i].expires_at > t }

\* a refresh call that ended Ok found a record with the hash of its token, expiring
\* strictly after the call's start and not revoked before it; only such a call holds
\* an access token
C12_State ==
    \A c \in CallIds :
      call[c].op = "refresh" =>
        /\ IsSome(call[c].access) => (call[c].pc = "done" /\ call[c].result = "Ok")
        /\ (call[c].pc = "done" /\ call[c].result = "Ok") =>
             /\ call[c].row \in RowsOfToken(c)
             /\ refresh_tokens[call[c].row].expires_at > call[c].t0
             /\ \/ refresh_tokens[call[c].row].revoked_at = None
                \/ Unwrap(refresh_tokens[call[c].row].revoked_at) >= call[c].t0

\* the start of a refresh call: with no active record for the token (unknown, revoked,
\* or expires_at <= now) the call ends at once, Unauthorized (Internal when the body
\* has no token or the database call failed), and a call that goes on holds an
\* active record
C12_Step ==
    \A c \in CallIds :
      (call[c].pc = "idle" /\ call'[c].op = "refresh") =>
        /\ ActiveRowsOfToken(c, now)' = {} =>
             /\ call'[c].pc = "done"
             /\ call'[c].result \in {"Unauthorized", "Internal"}
             /\ call'[c].access = None
        /\ (IsSome(Unwrap(call'[c].body).refresh_token)
              /\ call'[c].result = "Internal") => call'[c].pc = "done"
        /\ call'[c].pc = "found" => call'[c].row \in ActiveRowsOfToken(c, now)'

C13_RefreshRevokedWithSession ==
    \A i \in DOMAIN refresh_tokens :
      Revoked(sessions[refresh_tokens[i].session_id]) => IsSome(refresh_tokens[i].revoked_at)

----------------------------------------------------------------------------
(* Properties of the token endpoint's failures *)

\* C14: an issue call that failed (Internal) returned no access and no refresh token,
\* and no session and no refresh record created by that call is in storage.
C14_NoPartialState ==
    \A c \in CallIds :
      (call[c].op = "issue" /\ call[c].pc = "done" /\ call[c].result = "Internal") =>
        /\ call[c].access = None
        /\ call[c].refresh_token = None
        /\ call[c].session_id \notin DOMAIN sessions
        /\ \A i \in DOMAIN refresh_tokens :
             refresh_tokens[i].token_hash # hash_refresh_token(generate_refresh_token(c))

\* the body of a token request lacks the field its grant needs
Malformed(body) ==
    \/ body.grant_type = Some("refresh_token") /\ ~IsSome(body.refresh_token)
    \/ body.grant_type # Some("refresh_token") /\ ~IsSome(body.sub)

\* C15: a token request with grant_type = "refresh_token" and no refresh_token, or an
\* issue request with no sub, is answered with the invalid-request error (400) and
\* creates no session and no refresh record.
C15_MalformedIsBadRequest ==
    \A c \in CallIds :
      (call[c].pc # "idle" /\ Malformed(Unwrap(call[c].body))) =>
        /\ call[c].pc = "done"
        /\ call[c].result = "InvalidRequest"
        /\ call[c].session_id = 0 /\ call[c].row = 0

----------------------------------------------------------------------------
(* Properties of the protected path's answers *)

\* C16: every finished request either reached the handler, or was rejected with the
\* one answer Unauthorized (401): the handler did not run, no AuthCtx was set, and the
\* error value is the same whatever the reason of the rejection (missing or non-Bearer
\* Authorization, token error, proof error, replay, replay-backend failure).
C16_SingleFailureSurface ==
    \A r \in ReqIds :
      req[r].pc = "done" =>
        \/ /\ req[r].handler /\ req[r].status = 200
           /\ req[r].err = "" /\ req[r].reason = ""
        \/ /\ ~req[r].handler /\ req[r].ctx = None
           /\ req[r].status = 401 /\ req[r].err = "Unauthorized"
           /\ req[r].reason # ""

\* two requests were rejected for different reasons, one of them by the replay check,
\* and got the same answer
C16_Witness ==
    \E a \in ReqIds, b \in ReqIds :
      /\ req[a].pc = "done" /\ req[b].pc = "done"
      /\ req[a].reason \in {"Replay", "ReplayBackend"}
      /\ req[b].reason \notin {"", "Replay", "ReplayBackend"}
      /\ req[a].status = req[b].status /\ req[a].err = req[b].err
      /\ ~req[a].handler /\ ~req[b].handler

\* the access token passes every check of verify_verified at time t, stated from
\* its claims
TokenValidAt(tok, t) ==
    /\ tok.sig
    /\ tok.iss = Issuer
    /\ Audience \in Elems(tok.aud)
    /\ tok.exp # 0
    /\ tok.exp >= t - AccessLeeway
    /\ tok.sub # ""
    /\ Lower(tok.sub) \in Users

\* a request that passes the checks on arrival carries "Bearer <jwt>" with a jwt that
\* is valid at that time, and the user it is handled for is the jwt's sub
C17_Step ==
    \A r \in ReqIds :
      (req[r].pc = "idle" /\ PassedChecks(req'[r])) =>
        /\ Unwrap(req'[r].inp).auth = "bearer"
        /\ TokenValidAt(TokenOf(req'[r]), now)
        /\ req'[r].user_id = Lower(TokenOf(req'[r]).sub)

\* only a request that passed the checks reaches the handler, with AuthCtx.user_id the
\* UUID of its token's sub
C17_State ==
    \A r \in ReqIds :
      /\ req[r].pc = "idle" => ~PassedChecks(req[r])
      /\ req[r].handler =>
           /\ Unwrap(req[r].inp).auth = "bearer"
           /\ req[r].ctx = Some(Lower(TokenOf(req[r]).sub))

\* C17: a request reaches the handler only if its Authorization header is
\* "Bearer <jwt>" and the jwt passed verify_verified when the request arrived (signature,
\* iss, aud containing the audience, exp within leeway and not 0, a non-empty UUID sub);
\* AuthCtx.user_id is the token's sub.
C17_HandlerNeedsValidToken == []C17_State /\ [][C17_Step]_vars

\* the handler ran for a request whose token's sub is a UUID written in upper case
C17_Witness ==
    \E r \in ReqIds :
      /\ req[r].handler /\ req[r].status = 200
      /\ TokenOf(req[r]).sub = "U1"
      /\ req[r].ctx = Some("u1")

\* C18: verification rejects every access token whose nbf claim is present and in the
\* future: no request that passed the token checks carries a token with nbf > now.
C18_NbfInFutureRejected ==
    \A r \in ReqIds :
      PassedChecks(req[r]) =>
        ~(IsSome(TokenOf(req[r]).nbf) /\ Unwrap(TokenOf(req[r]).nbf) > now)

----------------------------------------------------------------------------
(* Issue and verify *)

\* the subject and the thumbprint call c minted its access token for: those of the
\* request for an issue call, those of the session for a refresh call
MintedSub(c) ==
    IF call[c].op = "issue" THEN Unwrap(Unwrap(call[c].body).sub)
    ELSE sessions[call[c].session_id].user_id
MintedJkt(c) ==
    IF call[c].op = "issue" THEN Unwrap(call[c].body).jkt
    ELSE sessions[call[c].session_id].dpop_jkt

\* C19: every access token the authorization server minted for (sub, jkt) is accepted
\* by the resource server's verify_verified at any time up to its exp, with
\* user_id = sub, cnf_jkt = jkt (absent iff no jkt was given) and the minted jti.
C19_IssueVerifyRoundTrip ==
    obs.op = "verify_verified" =>
      LET c == obs.id
          r == Unwrap(obs.result)
      IN r.at <= Unwrap(call[c].access).exp =>
           /\ r.out.ok
           /\ r.out.user_id = MintedSub(c)
           /\ r.out.cnf_jkt = MintedJkt(c)
           /\ (IsSome(r.out.cnf_jkt) <=> IsSome(MintedJkt(c)))
           /\ r.out.jti = Some(NewJti(c))

\* a token minted with a thumbprint was verified at the very second of its exp
C19_Witness ==
    /\ obs.op = "verify_verified"
    /\ Unwrap(obs.result).at = Unwrap(call[obs.id].access).exp
    /\ Unwrap(obs.result).out.ok
    /\ Unwrap(obs.result).out.cnf_jkt = Some(Jkt("k1"))
    /\ Unwrap(obs.result).out.user_id = "u1"

----------------------------------------------------------------------------
(* The iat window *)

\* the proof's iat is neither later than now + leeway nor older than max_age + leeway
InIatWindow(iat) ==
    /\ iat <= now + policy.iat_leeway_seconds
    /\ now - iat <= policy.max_age_seconds + policy.iat_leeway_seconds

\* C20: an otherwise valid proof is rejected with InvalidIat exactly when its iat is
\* outside the window: iat = now + iat_leeway_seconds is accepted and one second later
\* is rejected; now - iat = max_age_seconds + iat_leeway_seconds is accepted and one
\* second older is rejected.
C20_IatWindowBoundaries ==
    \A r \in ReqIds :
      req[r].pc # "idle" =>
        LET iat == Unwrap(ProofOf(req[r]).iat) IN
        /\ req[r].reason = "InvalidIat" <=> ~InIatWindow(iat)
        /\ InIatWindow(iat) => (PassedChecks(req[r]) \/ req[r].reason = "Replay")
        /\ iat = now + policy.iat_leeway_seconds => req[r].reason # "InvalidIat"
        /\ iat = now + policy.iat_leeway_seconds + 1 => req[r].reason = "InvalidIat"
        /\ now - iat = policy.max_age_seconds + policy.iat_leeway_seconds
             => req[r].reason # "InvalidIat"
        /\ now - iat = policy.max_age_seconds + policy.iat_leeway_seconds + 1
             => req[r].reason = "InvalidIat"

\* with a non-zero leeway and max age, the oldest proof of the window reached the
\* handler and a proof one second too far in the future was rejected
C20_Witness ==
    /\ policy.iat_leeway_seconds > 0 /\ policy.max_age_seconds > 0
    /\ req[1].handler
    /\ now - Unwrap(ProofOf(req[1]).iat)
         = policy.max_age_seconds + policy.iat_leeway_seconds
    /\ req[2].pc = "done" /\ req[2].reason = "InvalidIat" /\ req[2].status = 401
    /\ Unwrap(ProofOf(req[2]).iat) = now + policy.iat_leeway_seconds + 1

----------------------------------------------------------------------------
(* The proof's binding to the request *)

\* the absolute URI the verifier expects for the request, normalized
ExpectedOf(q) ==
    normalize_htu(build_expected_htu(Unwrap(q.inp).headers, Unwrap(q.inp).uri, base_url))

\* two requests present the same access token with the same DPoP header
SamePresentation(a, b) ==
    /\ Unwrap(a.inp).auth = "bearer" /\ Unwrap(b.inp).auth = "bearer"
    /\ Unwrap(a.inp).token = Unwrap(b.inp).token
    /\ Unwrap(a.inp).headers.dpop = Unwrap(b.inp).headers.dpop

\* C21: with policy.required, every request that passed the proof checks has a proof
\* whose htm equals the request's method ignoring ASCII case and whose normalized htu
\* equals the normalized expected URI; the same presentation made on another method is
\* rejected with MethodMismatch, and on the same method with another URI with
\* UriMismatch.
C21_MethodAndUriBinding ==
    policy.required =>
      /\ \A r \in ReqIds :
           PassedChecks(req[r]) =>
             /\ Lower(Unwrap(ProofOf(req[r]).htm)) = Lower(Unwrap(req[r].inp).method)
             /\ normalize_htu(Unwrap(ProofOf(req[r]).htu)) = ExpectedOf(req[r])
      /\ \A a \in ReqIds, b \in ReqIds :
           (PassedChecks(req[a]) /\ req[b].pc # "idle" /\ SamePresentation(req[a], req[b])) =>
             /\ Lower(Unwrap(req[b].inp).method) # Lower(Unwrap(req[a].inp).method)
                  => (req[b].pc = "done" /\ req[b].reason = "MethodMismatch")
             /\ (Lower(Unwrap(req[b].inp).method) = Lower(Unwrap(req[a].inp).method)
                   /\ ExpectedOf(req[b]) # ExpectedOf(req[a]))
                  => (req[b].pc = "done" /\ req[b].reason = "UriMismatch")

\* u1's proof for GET was admitted, and the same proof on POST was rejected with
\* MethodMismatch
C21_Witness ==
    /\ policy.required
    /\ req[2].handler /\ Unwrap(req[2].inp).method = "GET"
    /\ SamePresentation(req[1], req[2])
    /\ Unwrap(req[1].inp).method = "POST"
    /\ req[1].pc = "done" /\ req[1].reason = "MethodMismatch" /\ req[1].status = 401

----------------------------------------------------------------------------
(* The replay window's end points *)

\* the TTL the cache is given for a replay key
ReplayTtl == Max(policy.replay_ttl_seconds, 1)

\* the requests other than r whose check_and_store call may have stored r's key
Claimants(r) ==
    { a \in ReqIds \ {r} :
        /\ req[a].key = req[r].key
        /\ req[a].mw = "rs"
        /\ req[a].first_time \in {"true", "err"} }

\* an answered check_and_store call for a key claimed before: less than the TTL after
\* a first-time claim it answers already-present; more than the TTL after every
\* earlier claim it answers first-time again
C22_Step ==
    \A r \in ReqIds :
      (req[r].pc = "replay" /\ req'[r].pc = "claimed" /\ req'[r].first_time # "err") =>
        /\ (\E a \in Claimants(r) :
              req[a].first_time = "true" /\ now <= req[a].claimAt + ReplayTtl - 1)
             => req'[r].first_time = "false"
        /\ (\A a \in Claimants(r) : now >= req[a].claimAt + ReplayTtl + 1)
             => req'[r].first_time = "true"

\* the answer decides the request: already-present is a 401, first-time reaches the
\* handler
C22_State ==
    \A r \in ReqIds :
      (req[r].pc = "done" /\ req[r].mw = "rs") =>
        /\ req[r].first_time = "false" => (req[r].status = 401 /\ req[r].reason = "Replay")
        /\ req[r].first_time = "true" => req[r].handler

\* C22: after a proof was admitted at time t with replay TTL ttl, a second presentation
\* of the same proof whose check_and_store runs at t + ttl - 1 is rejected as a replay,
\* and one whose check_and_store runs at t + ttl + 1 finds the key expired, is answered
\* first-time and is admitted.
C22_ReplayTtlBoundary == []C22_State /\ [][C22_Step]_vars

\* the same proof was admitted at time 0 and again one second after its key's TTL
C22_Witness ==
    /\ req[1].handler /\ req[1].first_time = "true" /\ req[1].mw = "rs"
    /\ req[2].handler /\ req[2].first_time = "true" /\ req[2].mw = "rs"
    /\ req[1].inp = req[2].inp /\ req[1].key = req[2].key
    /\ req[2].claimAt = req[1].claimAt + ReplayTtl + 1

----------------------------------------------------------------------------
(* The shape of the proof *)

\* C23: with policy.required, a request carrying two or more DPoP header occurrences
\* is rejected and never passes the proof checks on the strength of one of them.
C23_OneDpopHeader ==
    \A r \in ReqIds :
      (policy.required /\ req[r].pc # "idle" /\ Len(Unwrap(req[r].inp).headers.dpop) >= 2) =>
        /\ ~PassedChecks(req[r])
        /\ req[r].pc = "done" /\ req[r].status = 401

\* the request's proof is a JWS of typ dpop+jwt and alg EdDSA that embeds a jwk
EmbedsJwk(q) ==
    /\ Unwrap(q.inp).auth = "bearer"
    /\ Unwrap(q.inp).headers.dpop # <<>>
    /\ ProofOf(q).wf
    /\ IsSome(ProofOf(q).typ) /\ Lower(Unwrap(ProofOf(q).typ)) = "dpop+jwt"
    /\ ProofOf(q).alg = "EdDSA"
    /\ IsSome(ProofOf(q).jwk)

\* C24: with policy.required, a proof whose embedded jwk is not an OKP key on Ed25519
\* is rejected with UnsupportedJwk and never accepted, whether the access token carries
\* a cnf.jkt or not.
C24_JwkShape ==
    \A r \in ReqIds :
      (policy.required /\ req[r].pc # "idle" /\ EmbedsJwk(req[r])
         /\ verify_verified(TokenOf(req[r]), now).ok
         /\ ~(Unwrap(ProofOf(req[r]).jwk).kty = "OKP"
                /\ Unwrap(ProofOf(req[r]).jwk).crv = "Ed25519")) =>
        /\ ~PassedChecks(req[r])
        /\ req[r].pc = "done" /\ req[r].reason = "UnsupportedJwk"

\* the request's token is valid now and its proof is signed by the key it embeds,
\* the key the token is bound to if it is bound
CorrectlySigned(q) ==
    /\ EmbedsJwk(q)
    /\ verify_verified(TokenOf(q), now).ok
    /\ from_jwk_ok(Unwrap(ProofOf(q).jwk))
    /\ check_jkt(Unwrap(ProofOf(q).jwk), TokenOf(q).cnf_jkt) = "Ok"
    /\ decode_ok(ProofOf(q))

\* the first of htm, htu, iat, jti that the proof lacks, "" if it has them all
FirstMissing(p) ==
    IF ~IsSome(p.htm) THEN "htm"
    ELSE IF ~IsSome(p.htu) THEN "htu"
    ELSE IF ~IsSome(p.iat) THEN "iat"
    ELSE IF ~IsSome(p.jti) THEN "jti"
    ELSE ""

\* the proof of the arriving request matches its method and URI and is in the window
BoundAndFresh(q) ==
    /\ Lower(Unwrap(ProofOf(q).htm)) = Lower(Unwrap(q.inp).method)
    /\ normalize_htu(Unwrap(ProofOf(q).htu)) = ExpectedOf(q)
    /\ InIatWindow(Unwrap(ProofOf(q).iat))

C25_Step ==
    \A r \in ReqIds :
      (policy.required /\ req[r].pc = "idle" /\ req'[r].pc # "idle"
         /\ CorrectlySigned(req'[r])) =>
        LET p == ProofOf(req'[r]) IN
        /\ FirstMissing(p) = "htm" => req'[r].reason = "MissingClaim(htm)"
        /\ FirstMissing(p) = "htu" => req'[r].reason = "MissingClaim(htu)"
        /\ FirstMissing(p) = "iat" => req'[r].reason = "MissingClaim(iat)"
        /\ FirstMissing(p) = "jti" => req'[r].reason = "MissingClaim(jti)"
        /\ (FirstMissing(p) = "" /\ BoundAndFresh(req'[r])
              /\ policy.require_ath /\ ~IsSome(p.ath))
             => req'[r].reason = "MissingClaim(ath)"
        /\ (FirstMissing(p) # "" \/ (policy.require_ath /\ ~IsSome(p.ath)))
             => (req'[r].pc = "done" /\ req'[r].status = 401 /\ ~req'[r].handler)

\* C25: with policy.required, a correctly signed proof that lacks htm, htu, iat or jti
\* is rejected with MissingClaim naming the first one it lacks; with
\* policy.require_ath a proof without ath is rejected with MissingClaim("ath"); the
\* request gets 401.
C25_RequiredClaims == [][C25_Step]_vars

\* a proof without iat, jti and ath was rejected for iat
C25_Witness ==
    \E r \in ReqIds :
      /\ policy.required /\ policy.require_ath
      /\ req[r].pc = "done" /\ req[r].status = 401
      /\ req[r].reason = "MissingClaim(iat)"
      /\ ~IsSome(ProofOf(req[r]).jti) /\ ~IsSome(ProofOf(req[r]).ath)

----------------------------------------------------------------------------
(* DPoP switched off *)

\* without policy.required a request with a valid Bearer token is admitted in the step
\* that receives it, whatever its DPoP headers, and no step writes the replay store
C26_Step ==
    ~policy.required =>
      /\ store' = store
      /\ \A r \in ReqIds :
           (req[r].pc = "idle" /\ req'[r].pc # "idle"
              /\ Unwrap(req'[r].inp).auth = "bearer"
              /\ verify_verified(TokenOf(req'[r]), now).ok) =>
             /\ req'[r].pc = "done" /\ req'[r].handler /\ req'[r].status = 200
             /\ req'[r].key = None /\ req'[r].first_time = "none"

\* without policy.required no request waits for or holds a check_and_store answer and
\* the replay store is empty
C26_State ==
    ~policy.required =>
      /\ store = <<>>
      /\ \A r \in ReqIds :
           /\ req[r].pc \notin {"replay", "claimed"}
           /\ req[r].first_time = "none"
           /\ req[r].reason \in {"", "Authorization", "Jwt", "EmptyClaim(iss)",
                                 "EmptyClaim(sub)", "EmptyClaim(exp)",
                                 "MissingOrInvalidAud", "InvalidSubUuid"}

\* C26: if policy.required is false, verify_proof answers "no proof" without reading the
\* DPoP header, the middleware makes no check_and_store call, the replay store is
\* unchanged, and the request is admitted on the verified access token alone.
C26_ShortCircuit == []C26_State /\ [][C26_Step]_vars

\* with DPoP switched off, a request whose DPoP header is not a JWT reached the handler
C26_Witness ==
    \E r \in ReqIds :
      /\ ~policy.required
      /\ req[r].handler /\ req[r].status = 200
      /\ Unwrap(req[r].inp).headers.dpop # <<>>
      /\ ~ProofOf(req[r]).wf
      /\ store = <<>>

----------------------------------------------------------------------------
(* Concurrent refresh calls *)

\* C27: under any interleaving of refresh, issue and revoke calls, a refresh call that
\* ended Ok holds one access token, whose sub is the subject of the session of the
\* record matching the hash of the presented token; a call that did not end Ok holds
\* none; two Ok presentations of the same token hold tokens for the same subject.
C27_RefreshSubject ==
    /\ \A c \in CallIds :
         call[c].op = "refresh" =>
           /\ IsSome(call[c].access) <=> (call[c].pc = "done" /\ call[c].result = "Ok")
           /\ IsSome(call[c].access) =>
                /\ RowsOfToken(c) # {}
                /\ \A i \in RowsOfToken(c) :
                     Unwrap(call[c].access).sub = sessions[refresh_tokens[i].session_id].user_id
    /\ \A c \in CallIds, d \in CallIds :
         (call[c].op = "refresh" /\ call[d].op = "refresh"
            /\ IsSome(call[c].access) /\ IsSome(call[d].access)
            /\ Unwrap(call[c].body).refresh_token = Unwrap(call[d].body).refresh_token)
         => Unwrap(call[c].access).sub = Unwrap(call[d].access).sub

\* u2's refresh token was presented twice and both calls ended Ok with a token for u2,
\* and the session has been revoked since
C27_Witness ==
    /\ call[1].op = "refresh" /\ call[2].op = "refresh"
    /\ call[1].result = "Ok" /\ call[2].result = "Ok"
    /\ Unwrap(call[1].body).refresh_token = Some(<<"rt", 0 - 2>>)
    /\ Unwrap(call[2].body).refresh_token = Some(<<"rt", 0 - 2>>)
    /\ Unwrap(call[1].access).sub = "u2" /\ Unwrap(call[2].access).sub = "u2"
    /\ Unwrap(call[1].access).jti # Unwrap(call[2].access).jti
    /\ Revoked(sessions[2])

----------------------------------------------------------------------------
(* Refresh records *)

\* C28: every refresh record stored has expires_at later than issued_at, whatever
\* refresh_ttl the service is configured with.
C28_ExpiresAfterIssued ==
    \A i \in DOMAIN refresh_tokens :
      refresh_tokens[i].expires_at > refresh_tokens[i].issued_at

\* C29: a refresh call that ended Ok returns the refresh token string it was given,
\* with the session_id of the record matching that token, and no step of a refresh
\* call creates, revokes or alters a refresh record.
C29_State ==
    \A c \in CallIds :
      (call[c].op = "refresh" /\ call[c].pc = "done" /\ call[c].result = "Ok") =>
        /\ call[c].refresh_token = Unwrap(call[c].body).refresh_token
        /\ call[c].row \in RowsOfToken(c)
        /\ call[c].session_id = refresh_tokens[call[c].row].session_id

C29_Step ==
    \A c \in CallIds :
      (call'[c] # call[c] /\ call'[c].op = "refresh") => refresh_tokens' = refresh_tokens

C29_NoRotation == []C29_State /\ [][C29_Step]_vars

\* u1's refresh token was presented twice, both calls ended Ok and returned it, and
\* the two stored records are the ones stored before the calls
C29_Witness ==
    /\ \A c \in CallIds :
         /\ call[c].op = "refresh" /\ call[c].pc = "done" /\ call[c].result = "Ok"
         /\ Unwrap(call[c].body).refresh_token = Some(<<"rt", 0 - 1>>)
         /\ call[c].refresh_token = Some(<<"rt", 0 - 1>>)
         /\ call[c].session_id = 1
    /\ Len(refresh_tokens) = 2
    /\ \A i \in DOMAIN refresh_tokens :
         refresh_tokens[i] = RefreshTokenRow(i, hash_refresh_token(<<"rt", 0 - i>>),
                                             RefreshTtl, 0)

----------------------------------------------------------------------------
(* Expected URI *)

\* two requests that differ at most in X-Forwarded-Proto, X-Forwarded-Host and Host
SameButForwarded(a, b) ==
    /\ SamePresentation(a, b)
    /\ Unwrap(a.inp).method = Unwrap(b.inp).method
    /\ Unwrap(a.inp).uri = Unwrap(b.inp).uri

\* C30: when public_base_url is configured, the expected URI of every request is the
\* base URL's scheme, host and port with the request's path and query, and two
\* requests that differ only in X-Forwarded-Proto, X-Forwarded-Host and Host get the
\* same outcome of the htu check.
C30_BaseUrlIgnoresForwarded ==
    IsSome(base_url) =>
      /\ \A r \in ReqIds :
           req[r].pc # "idle" =>
             ExpectedOf(req[r])
               = normalize_htu(build_htu_from_base(Unwrap(base_url), Unwrap(req[r].inp).uri))
      /\ \A a \in ReqIds, b \in ReqIds :
           (req[a].pc # "idle" /\ req[b].pc # "idle" /\ SameButForwarded(req[a], req[b]))
           => (req[a].reason = "UriMismatch" <=> req[b].reason = "UriMismatch")

----------------------------------------------------------------------------
(* URI normalization *)

\* the port of a URI, none (0) when it is the default port of its scheme
EffectivePort(u) ==
    IF (Lower(u.scheme) = "http" /\ u.port = 80) \/ (Lower(u.scheme) = "https" /\ u.port = 443)
    THEN 0 ELSE u.port

\* C31: normalize_htu lowercases scheme and host, strips the default port and keeps
\* path and query as written; HTTP://Host:80/a?b=1 and http://host/a?b=1 normalize
\* equal, https://Host:443/ and https://host/ normalize equal; two URIs that differ
\* in a non-default port, in path or in query normalize unequal; the htu claim and
\* the expected URI go through the same normalization.
C31_NormalizeHtu ==
    obs.op = "htu" =>
      LET a == obs.id[1]
          b == obs.id[2]
          na == Unwrap(obs.result).htu
          nb == Unwrap(obs.result).expected_htu
      IN /\ na = normalize_htu(a) /\ nb = normalize_htu(b)
         /\ na.scheme = Lower(a.scheme) /\ na.host = Lower(a.host)
         /\ na.port = EffectivePort(a)
         /\ na.path = a.path /\ na.query = a.query
         /\ (a = Url("HTTP", "Host", 80, "/a", Some("b=1"))
               /\ b = Url("http", "host", 0, "/a", Some("b=1"))) => na = nb
         /\ (a = Url("https", "Host", 443, "/", None)
               /\ b = Url("https", "host", 0, "/", None)) => na = nb
         /\ (EffectivePort(a) # EffectivePort(b) \/ a.path # b.path \/ a.query # b.query)
              => na # nb

----------------------------------------------------------------------------
(* Replay TTL and replay keys *)

\* with replay_ttl_seconds = 0: a first-time claim leaves its key in the cache with
\* an expiry one second later, and a check_and_store answered in the second of an
\* earlier first-time claim of the same key answers already-present
C32_Step ==
    policy.replay_ttl_seconds = 0 =>
      \A r \in ReqIds :
        (req[r].pc = "replay" /\ req'[r].pc = "claimed" /\ req'[r].first_time # "err") =>
          LET key == FullKey(Unwrap(req[r].key)) IN
          /\ req'[r].first_time = "true" =>
               (key \in DOMAIN store' /\ store'[key] = now + 1)
          /\ (\E a \in Claimants(r) : req[a].first_time = "true" /\ req[a].claimAt = now)
               => (req'[r].first_time = "false" /\ store' = store)

\* with replay_ttl_seconds = 0 a request answered already-present ends 401 as a replay
C32_State ==
    policy.replay_ttl_seconds = 0 =>
      \A r \in ReqIds :
        (req[r].pc = "done" /\ req[r].mw = "rs" /\ req[r].first_time = "false") =>
          (req[r].status = 401 /\ req[r].reason = "Replay" /\ ~req[r].handler)

\* C32: the replay TTL is clamped to at least one second: with replay_ttl_seconds = 0
\* a claimed key is stored with a one-second expiry, and a second presentation of the
\* same proof in the same second is rejected as a replay.
C32_TtlClampedToOne == []C32_State /\ [][C32_Step]_vars

\* with replay_ttl_seconds = 0 a proof was admitted and its second presentation, in
\* the same second, was rejected as a replay
C32_Witness ==
    /\ policy.replay_ttl_seconds = 0
    /\ req[1].mw = "rs" /\ req[1].handler /\ req[1].first_time = "true"
    /\ req[2].mw = "rs" /\ req[2].pc = "done" /\ req[2].first_time = "false"
    /\ req[2].key = req[1].key /\ req[2].claimAt = req[1].claimAt
    /\ req[2].status = 401 /\ req[2].reason = "Replay"

JtiOf(q) == Unwrap(ProofOf(q).jti)

\* the requests that went to the replay store
Keyed(r) == req[r].mw = "rs" /\ IsSome(req[r].key)

\* the key a request sends to the cache is dpop:replay:dpop:<user_id>:<jti>, the cache
\* holds no other keys, two requests send the same key iff subject and jti agree, and
\* a request answered already-present has the subject and jti of another request that
\* claimed
C33_State ==
    /\ \A r \in ReqIds :
         Keyed(r) =>
           FullKey(Unwrap(req[r].key))
             = <<"dpop:replay", "dpop", req[r].user_id, JtiOf(req[r])>>
    /\ DOMAIN store \subseteq { FullKey(Unwrap(req[r].key)) : r \in {x \in ReqIds : Keyed(x)} }
    /\ \A a \in ReqIds, b \in ReqIds :
         (Keyed(a) /\ Keyed(b)) =>
           (req[a].key = req[b].key
              <=> (req[a].user_id = req[b].user_id /\ JtiOf(req[a]) = JtiOf(req[b])))
    /\ \A b \in ReqIds :
         (Keyed(b) /\ req[b].first_time = "false") =>
           \E a \in ReqIds \ {b} :
             /\ Keyed(a) /\ req[a].first_time \in {"true", "err"}
             /\ req[a].user_id = req[b].user_id /\ JtiOf(req[a]) = JtiOf(req[b])

\* an answered check_and_store of a request whose subject and jti no other request
\* has claimed answers first-time, whatever other subjects did with the same jti
C33_Step ==
    \A r \in ReqIds :
      (req[r].pc = "replay" /\ req'[r].pc = "claimed" /\ req'[r].first_time # "err") =>
        ((\A a \in ReqIds \ {r} :
             (Keyed(a) /\ req[a].first_time \in {"true", "err"}) =>
               (req[a].user_id # req[r].user_id \/ JtiOf(req[a]) # JtiOf(req[r])))
         => req'[r].first_time = "true")

\* C33: the key written to the cache is dpop:replay:dpop:<user_id>:<jti>; two
\* presentations map to the same key iff they have the same subject and the same jti,
\* so the same jti under two subjects is admitted once for each, and a replay by one
\* subject never blocks another subject.
C33_KeyPerSubjectAndJti == []C33_State /\ [][C33_Step]_vars

\* jti j1 was presented by u1 and by u2 and both requests reached the handler, both
\* keys being in the cache
C33_Witness ==
    /\ Keyed(1) /\ Keyed(2)
    /\ req[1].user_id # req[2].user_id
    /\ JtiOf(req[1]) = JtiOf(req[2])
    /\ req[1].handler /\ req[2].handler
    /\ FullKey(Unwrap(req[1].key)) \in DOMAIN store
    /\ FullKey(Unwrap(req[2].key)) \in DOMAIN store

\* the requests that were dropped after check_and_store answered first-time
CancelledAfterClaim(a) ==
    req[a].pc = "cancelled" /\ req[a].first_time = "true"

\* a key stays in the cache with its expiry until that expiry has come, whatever the
\* step; and a check_and_store answered before the expiry of the claim of a request
\* cancelled after its claim answers already-present
C34_Step ==
    /\ \A k \in DOMAIN store :
         store[k] > now => (k \in DOMAIN store' /\ store'[k] = store[k])
    /\ \A r \in ReqIds :
         (req[r].pc = "replay" /\ req'[r].pc = "claimed" /\ req'[r].first_time # "err") =>
           ((\E a \in ReqIds \ {r} :
                /\ CancelledAfterClaim(a) /\ req[a].key = req[r].key
                /\ now < req[a].claimAt + ReplayTtl)
            => req'[r].first_time = "false")

\* a cancelled request never reached the handler, and a retry answered already-present
\* ends 401 as a replay
C34_State ==
    \A r \in ReqIds :
      /\ req[r].pc = "cancelled" => (~req[r].handler /\ req[r].ctx = None)
      /\ (req[r].pc = "done" /\ req[r].mw = "rs" /\ req[r].first_time = "false")
           => (req[r].status = 401 /\ ~req[r].handler)

\* C34: once check_and_store answered first-time for a key, no path of the middleware
\* deletes or overwrites it: when the request is cancelled after the claim and before
\* admission, the jti stays claimed until its TTL expires and a retry with the same
\* proof within the TTL is rejected.
C34_ClaimSurvivesCancellation == []C34_State /\ [][C34_Step]_vars

\* a request was cancelled after its claim, and the retry with the same proof, within
\* the TTL, was rejected as a replay
C34_Witness ==
    /\ CancelledAfterClaim(1)
    /\ req[2].pc = "done" /\ req[2].inp = req[1].inp /\ req[2].key = req[1].key
    /\ req[2].first_time = "false" /\ req[2].status = 401 /\ req[2].reason = "Replay"
    /\ req[2].claimAt < req[1].claimAt + ReplayTtl

----------------------------------------------------------------------------
(* Replay window against the iat window *)

\* C35: with policy.required, a proof that reached the handler once never reaches it
\* again: no two requests that present the same token and proof on the same method
\* and URI are both admitted, whatever the policy's leeway, max age and replay TTL.
C35_AdmittedOnceForever ==
    policy.required =>
      \A a \in ReqIds, b \in ReqIds :
        (a # b /\ req[a].mw = "rs" /\ req[b].mw = "rs"
           /\ req[a].pc # "idle" /\ req[b].pc # "idle"
           /\ SameButForwarded(req[a], req[b]))
        => ~(req[a].handler /\ req[b].handler)

----------------------------------------------------------------------------
(* The resource server and the authorization server's tables *)

\* the middleware's verdict on an arriving request, from the request, the clock, the
\* policy and the configured base URL
ChecksPass(inp, t) ==
    /\ inp.auth = "bearer"
    /\ TokenValidAt(inp.token, t)
    /\ verify_proof(policy, inp.headers, inp.method, inp.uri, Some(inp.token),
                    inp.token.cnf_jkt, base_url, t).ok

\* a step of the middleware is decided by the request, the clock, the policy and the
\* replay store, and writes nothing to auth_sessions or refresh_tokens
C36_Step ==
    \A r \in ReqIds :
      req'[r] # req[r] =>
        /\ sessions' = sessions /\ refresh_tokens' = refresh_tokens
        /\ req[r].pc = "idle" =>
             /\ PassedChecks(req'[r]) <=> ChecksPass(Unwrap(req'[r].inp), now)
             /\ req'[r].handler <=> (ChecksPass(Unwrap(req'[r].inp), now) /\ ~policy.required)
        /\ req[r].pc = "replay" =>
             req'[r].first_time
               = IF FullKey(Unwrap(req[r].key)) \in DOMAIN store THEN "false" ELSE "true"
        /\ req[r].pc = "claimed" => (req'[r].handler <=> req[r].first_time = "true")

\* C36: the admission decision of the resource server depends on the request, the
\* clock, the policy and the replay store only; session and refresh state of the
\* authorization server are neither read nor written, so a request with an unexpired
\* access token is decided the same whether or not the token's session was revoked.
C36_DecisionIgnoresSessions == [][C36_Step]_vars

\* u1's session was revoked, and a request presenting its access token claimed its
\* proof after that and reached the handler
C36_Witness ==
    \E r \in ReqIds :
      /\ policy.required
      /\ Revoked(sessions[1])
      /\ req[r].mw = "rs" /\ req[r].handler /\ req[r].user_id = sessions[1].user_id
      /\ req[r].claimAt > Unwrap(sessions[1].revoked_at)

----------------------------------------------------------------------------
(* Refresh-token revocation *)

\* the finished revoke_by_token calls that returned 1 for the token call c presents
RevokedBy(c) ==
    { d \in CallIds \ {c} :
        /\ call[d].op = "revoke" /\ call[d].pc = "done" /\ call[d].result = "1"
        /\ Unwrap(call[d].body).refresh_token = Unwrap(call'[c].body).refresh_token }

C37_Step ==
    /\ \A i \in DOMAIN refresh_tokens :
         refresh_tokens[i].revoked_at # None => refresh_tokens'[i] = refresh_tokens[i]
    /\ \A c \in CallIds :
         /\ (call[c].pc = "idle" /\ call'[c].op = "refresh" /\ RevokedBy(c) # {})
              => (call'[c].pc = "done" /\ call'[c].result = "Unauthorized")
         /\ (call[c].pc = "idle" /\ call'[c].op = "revoke" /\ call'[c].result # "Internal"
               /\ ActiveRowsOfToken(c, now)' = {})
              => (call'[c].pc = "done" /\ call'[c].result = "0")
         /\ (call[c].pc # "done" /\ call'[c].pc = "done" /\ call'[c].op = "revoke") =>
              /\ call'[c].result \in {"0", "Internal"} => refresh_tokens' = refresh_tokens
              /\ call'[c].result = "1" =>
                   /\ refresh_tokens[call[c].row].revoked_at = None
                   /\ refresh_tokens' =
                        [refresh_tokens EXCEPT ![call[c].row].revoked_at = Some(call[c].t0)]

\* a revoke_by_token call that returned 1 left its record revoked at the time it was
\* given, with no replacement
C37_State ==
    \A c \in CallIds :
      (call[c].op = "revoke" /\ call[c].pc = "done" /\ call[c].result = "1") =>
        /\ refresh_tokens[call[c].row].revoked_at = Some(call[c].t0)
        /\ refresh_tokens[call[c].row].replaced_by = None

\* C37: after revoke_by_token(R) returned 1, every refresh(R) started later ends
\* Unauthorized; a revoke_by_token on a token with no active record (already revoked,
\* unknown or expired) returns 0; a call that returned 0 changed no record, and no step
\* changes a record that is revoked.
C37_RevocationIdempotent == []C37_State /\ [][C37_Step]_vars

\* u1's token was revoked by a call that returned 1, and a second revoke_by_token on
\* it returned 0 with the record as the first call left it
C37_Witness ==
    /\ call[1].op = "revoke" /\ call[1].pc = "done" /\ call[1].result = "1"
    /\ call[2].op = "revoke" /\ call[2].pc = "done" /\ call[2].result = "0"
    /\ Unwrap(call[1].body).refresh_token = Some(<<"rt", 0 - 1>>)
    /\ Unwrap(call[2].body).refresh_token = Some(<<"rt", 0 - 1>>)
    /\ call[2].t0 > call[1].t0
    /\ refresh_tokens[1].revoked_at = Some(call[1].t0)

====
